---- MODULE Spec2Model ----
(***************************************************************************)
(* Auditly: crawl / audit pipeline.                                        *)
(*   - CrawlerService.crawlWebsite and its helpers                         *)
(*     (src/server/services/crawlerService.ts)                             *)
(*   - AuditService.auditPages and the issue classifier                    *)
(*     (src/server/services/auditService.ts)                               *)
(*   - ReportService.generateSummary, the CSV report and the JSON report   *)
(*     (src/server/services/reportService.ts)                              *)
(*   - the routes of the server for crawls, audits and the audit history   *)
(*     (src/unnamed/part_000)                                              *)
(*   - the selection the browser client sends (src/src/app.ts)             *)
(*                                                                         *)
(* A URL string is modelled by its parsed parts:                           *)
(*   scheme  ""  (no scheme given), "http" or "https"                      *)
(*   host    the hostname                                                  *)
(*   path    the path without its leading slash and without trailing       *)
(*           slashes; "" is the root                                       *)
(*   ts      the number of trailing slashes that follow the path           *)
(*           (for the root: the slashes after the first one)               *)
(*   query   the query string, "" when there is none                       *)
(* so "https://h/a/" is [https, h, "a", 1, ""] and "h" is ["", h, "", 0]. *)
(***************************************************************************)
EXTENDS Integers, Sequences, FiniteSets, TLC

VARIABLES
    \* ---- one run of CrawlerService.crawlWebsite ----
    pc,            \* position of the run: "sitemap", "loop", "fetch", "delay", "done"
    mainUrl,       \* argument mainUrl
    maxPages,      \* argument maxPages
    homepageOnly,  \* argument homepageOnly
    baseUrl,       \* const baseUrl = normalizeUrl(mainUrl)
    visited,       \* const visited = new Set<string>()
    toVisit,       \* const toVisit: string[]
    pages,         \* const pages: PageData[]
    failedUrls,    \* const failedUrls: string[]
    currentUrl,    \* the URL dequeued by the running iteration
    smIdx,         \* getSitemapUrls: 0 = sitemap.xml, 1..4 = the alternative locations
    smUrls,        \* getSitemapUrls: const urls: string[]
    \* ---- observations of the run (history) ----
    requests,      \* the calls of fetchPage so far: URL -> how many
    fetchedFrom,   \* for each entry of pages, the frontier URL it was fetched from
    enqueued,      \* the pushes to toVisit so far: URL -> how many
    depthOf,       \* URL -> number of links from the seed when it was first pushed
    shortcut,      \* an extracted link reached a URL by fewer links than depthOf
    extractCalls,  \* number of extractLinks calls
    lastStep,      \* what the last iteration did with its URL
    delayed,       \* a politeness delay has elapsed since the last call of fetchPage
    smRequests,    \* getSitemapUrls: the locations requested, in order, and
    smAnswered,    \* whether each one answered (both kept until the loop starts)
    smReturned,    \* const sitemapUrls, the list returned (kept until the loop starts)
    lastFetch      \* the fetchPage call of the iteration that just ran: its outcome
                   \* and the GETs it issued

VARIABLES
    \* ---- one run of AuditService.auditPages ----
    apc,           \* position of the run: "idle", "request", "delay", "done"
    urls,          \* argument urls
    idx,           \* the loop variable i, counted from 1
    results,       \* const results: AuditResult[]
    \* ---- observations of the run (history) ----
    submitted,     \* the URLs posted to the API so far, in order
    responses,     \* what the posts settled with, in order
    auditDelays,   \* number of 1-second delays so far
    \* ---- one call of the issue classifier ----
    cpc,           \* "idle", "ready", "done"
    data,          \* the raw payload
    classified     \* transformAndCategorizeIssues(filterExcludedIssues(data))

VARIABLES
    \* ---- one call of ReportService.generateDetailedReport(results, format) ----
    rpc,              \* "idle", "ready", "summarized", "done" (the CSV report),
                      \* "reported" (the JSON report), "resummarized"
    reportResults,    \* argument results
    summary,          \* generateSummary(results)
    csvRows,          \* the rows of generateCsvReport(results, summary)
    jsonReport,       \* the report of generateJsonReport(results, summary)
    \* ---- one call of ReportService.generateCategorySummary ----
    kpc,              \* "idle", "ready", "done"
    categoryCounts,   \* argument categoryCounts
    categorySummary,  \* the record returned
    \* ---- CrawlerService.normalizeUrl applied over and over to a URL ----
    npc,              \* "idle", "ready"
    normalizeInput,   \* the URL given
    normalized        \* the results of the successive calls

VARIABLES
    \* ---- the Express server: POST /api/crawl and POST /api/audit ----
    hpc,           \* "off", "ready", or the handler that is awaiting: "crawl", "audit"
    body,          \* req.body of the request handled last
    reply,         \* the response sent last
    auditHistory,  \* const auditHistory
    served,        \* number of requests answered
    \* ---- the server with audit requests whose handlers interleave ----
    handlers,      \* for each request to POST /api/audit: where its handler
                   \* stands, its locals and what was answered
    now            \* Date.now(), counted in its distinct values

crawlVars == <<pc, mainUrl, maxPages, homepageOnly, baseUrl, visited, toVisit, pages,
               failedUrls, currentUrl, smIdx, smUrls, requests,
               fetchedFrom, enqueued, depthOf, shortcut, extractCalls, lastStep,
               delayed, smRequests, smAnswered, smReturned, lastFetch>>

auditVars == <<apc, urls, idx, results, submitted, responses, auditDelays>>

classifyVars == <<cpc, data, classified>>

reportVars ==
    <<rpc, reportResults, summary, csvRows, jsonReport, kpc, categoryCounts, categorySummary>>

normalizeVars == <<npc, normalizeInput, normalized>>

serverVars == <<hpc, body, reply, auditHistory, served, handlers, now>>

vars == <<crawlVars, auditVars, classifyVars, reportVars, normalizeVars, serverVars>>

(***************************************************************************)
(* Bounds of the model                                                     *)
(***************************************************************************)
MaxPagesBound == 3      \* maxPages ranges over 1..MaxPagesBound
MaxLinks == 2           \* anchors per fetched page, <loc> entries per sitemap
BfsMaxPages == 4        \* maxPages of the runs that follow links only
MaxUrls == 3            \* URLs of one auditPages call
MaxFindings == 3        \* entries of the violations list of a payload
MaxSlashes == 2         \* trailing slashes of a URL given to normalizeUrl
MaxCalls == 3           \* successive calls of normalizeUrl on one URL
MaxResults == 3         \* results given to the report service
MaxCount == 5           \* issues of one category
MaxNodes == 3           \* nodes of one finding

(***************************************************************************)
(* URLs                                                                    *)
(***************************************************************************)
Url(s, h, p, t, q) == [scheme |-> s, host |-> h, path |-> p, ts |-> t, query |-> q]

SeedHost == "site.test"
Root   == Url("https", SeedHost, "", 0, "")
PageA  == Url("https", SeedHost, "a", 0, "")
PageA1 == Url("https", SeedHost, "a", 1, "")        \* https://site.test/a/
PageA2 == Url("https", SeedHost, "a", 2, "")        \* https://site.test/a//
PageEn == Url("https", SeedHost, "en/x", 0, "")     \* single-locale URL
Sitemap == Url("https", SeedHost, "sitemap.xml", 0, "")
Robots == Url("https", SeedHost, "robots.txt", 0, "")
PageB  == Url("https", SeedHost, "b", 0, "")
NoUrl  == Url("", "", "", 0, "")

\* hrefs / <loc> values a server of the crawled site may send
LinkUniverse == {PageA, PageA2, PageEn, Sitemap}
\* values of the mainUrl argument
SeedUrls == {Url("", SeedHost, "", 0, ""), PageA1, Robots}
\* a URL of a host that is neither the seed's nor a partner's
PageElsewhere == Url("https", "cdn.elsewhere.test", "en/x", 0, "")
\* corrected URLs of a redirect to a doubled locale segment (/en/en/ -> /en/)
CorrectedUrls == {PageEn}
\* the same where the redirect may leave the host of the request: it ends
\* where the answering servers send it
RedirectTargets == {PageEn, PageElsewhere}

Includes(seq, x) == \E i \in 1..Len(seq) : seq[i] = x

NoDuplicates(seq) == \A i, j \in 1..Len(seq) : i # j => seq[i] # seq[j]

Range(seq) == {seq[i] : i \in 1..Len(seq)}

SeqsUpTo(S, n) == UNION {[1..k -> S] : k \in 0..n}

(***************************************************************************)
(* CrawlerService helpers                                                  *)
(***************************************************************************)
normalizeUrl(url) ==
    LET u == IF url.scheme = "" THEN [url EXCEPT !.scheme = "https"] ELSE url
    IN  IF u.path = "" /\ u.ts = 0
          THEN Url(u.scheme, u.host, "", 0, "")
          ELSE IF u.ts > 0
                 \* pathname.slice(0, -1): one slash removed, query and hash dropped
                 THEN Url(u.scheme, u.host, u.path, u.ts - 1, "")
                 ELSE u

ExcludedFilePaths == {"robots.txt", "sitemap.xml"}

isExcludedFile(url) == url.path \in ExcludedFilePaths /\ url.ts = 0

ErrorPaths == {"not-found", "error", "page-not-found", "file-not-found"}

\* a check of the URL path alone
is404PageByPath(url, pageData) == url.path \in ErrorPaths

\* pageData.notFound stands for: status 404, or a title / body with a 404 marker
is404Page(url, pageData) == pageData.notFound \/ url.path \in ErrorPaths

AllowedDomains(domain) == {domain, "t3planet.de", "t3planet.com"}

\* the extension patterns end in $: they match only when the URL ends with the path
MatchesExcludedPattern(url) ==
    url.path \in ExcludedFilePaths /\ url.ts = 0 /\ url.query = ""

isValidUrl(url, domain) ==
    url.host \in AllowedDomains(domain) /\ ~MatchesExcludedPattern(url)

RECURSIVE Dedup(_, _)
Dedup(seq, seen) ==
    IF seq = <<>> THEN <<>>
    ELSE IF Head(seq) \in seen THEN Dedup(Tail(seq), seen)
         ELSE <<Head(seq)>> \o Dedup(Tail(seq), seen \cup {Head(seq)})

\* html is the sequence of resolved anchor hrefs of the document
extractLinks(html, domain) ==
    Dedup(SelectSeq(html, LAMBDA l : isValidUrl(l, domain)), {})

\* the <loc> loop of getSitemapUrls: valid URLs are pushed, duplicates kept
ParseSitemap(locs, domain) == SelectSeq(locs, LAMBDA l : isValidUrl(l, domain))

\* PageData, without the title and with the body reduced to what the crawl reads:
\* the resolved anchors are consumed by extractLinks in the same step
PageData(url, notFound) == [url |-> url, notFound |-> notFound]

\* a fetchPage that gives up when the corrected URL fails
fetchPageCorrectedOrNull(url, outcome, corrected, notFound) ==
    CASE outcome \in {"fail", "redirFail"} -> <<>>
      [] outcome = "redirOk" -> <<PageData(corrected, notFound)>>
      [] OTHER -> <<PageData(url, notFound)>>

\* fetchPage(url): the outcome of the GET, and of the GET of the corrected URL
\*   "fail"      the request failed: null
\*   "ok"        a response, no redirect to a doubled locale segment
\*   "redirOk"   redirected to /en/en/, the corrected URL answered
\*   "redirFail" redirected to /en/en/, the corrected URL failed
\* returns <<>> for null and <<pageData>> otherwise
fetchPage(url, outcome, corrected, notFound) ==
    CASE outcome = "fail" -> <<>>
      [] outcome = "redirOk" -> <<PageData(corrected, notFound)>>
      [] OTHER -> <<PageData(url, notFound)>>

FetchOutcomes == {"fail", "ok", "redirOk", "redirFail"}

\* the GETs of one fetchPage call, in order: line 145, and line 169 after a
\* redirect to a doubled locale segment
fetchPageGets(url, outcome, corrected) ==
    IF outcome \in {"redirOk", "redirFail"} THEN <<url, corrected>> ELSE <<url>>

NoFetch == [outcome |-> "none", gets |-> <<>>]

\* a count of occurrences, one more of x
Counted(log, x) ==
    IF x \in DOMAIN log THEN [log EXCEPT ![x] = @ + 1] ELSE (x :> 1) @@ log

RECURSIVE CountedAll(_, _)
CountedAll(log, seq) ==
    IF seq = <<>> THEN log ELSE CountedAll(Counted(log, Head(seq)), Tail(seq))


(***************************************************************************)
(* crawlWebsite                                                            *)
(***************************************************************************)
SitemapLocations ==
    <<"/sitemap.xml", "/sitemap_index.xml", "/sitemap/", "/sitemaps/", "/sitemap/sitemap.xml">>

\* line 56: the condition under which a sitemap URL is pushed to toVisit
ShouldEnqueueSitemapUrl(n, base, vis, tv) ==
    n # base /\ ~isExcludedFile(n) /\ n \notin vis /\ ~Includes(tv, n)

\* line 117: the condition under which an extracted link is pushed to toVisit
ShouldEnqueueLink(n, vis, tv) ==
    ~isExcludedFile(n) /\ n \notin vis /\ ~Includes(tv, n)

RECURSIVE EnqueueSitemapUrls(_, _, _, _)
EnqueueSitemapUrls(tv, vis, base, sitemapUrls) ==
    IF sitemapUrls = <<>> THEN tv
    ELSE LET n == normalizeUrl(Head(sitemapUrls))
         IN  EnqueueSitemapUrls(
                 IF ShouldEnqueueSitemapUrl(n, base, vis, tv) THEN Append(tv, n) ELSE tv,
                 vis, base, Tail(sitemapUrls))

RECURSIVE EnqueueLinks(_, _, _)
EnqueueLinks(tv, vis, links) ==
    IF links = <<>> THEN tv
    ELSE LET n == normalizeUrl(Head(links))
         IN  EnqueueLinks(IF ShouldEnqueueLink(n, vis, tv) THEN Append(tv, n) ELSE tv,
                          vis, Tail(links))

\* lines 69-72
ReSeed(tv, base) == IF Len(tv) = 0 THEN <<base>> ELSE tv

\* the loop without the page budget
LoopGuardNoBudget == Len(toVisit) > 0

\* line 80
LoopGuard == Len(toVisit) > 0 /\ Len(pages) < maxPages

\* the frontier used as a stack: toVisit.pop()
Pop(tv) == [url |-> tv[Len(tv)], rest |-> SubSeq(tv, 1, Len(tv) - 1)]

\* the head read and left in the frontier: toVisit[0]
Peek(tv) == [url |-> Head(tv), rest |-> tv]

\* line 81: toVisit.shift()
Shift(tv) == [url |-> Head(tv), rest |-> Tail(tv)]

\* the visited check on the URL as dequeued, not on its normalized form
AlreadyVisitedRaw(url, vis) == url \in vis

\* line 84
AlreadyVisited(url, vis) == normalizeUrl(url) \in vis

\* link extraction that ignores homepageOnly
ShouldExtractLinksAnyMode(nPages, limit, hpOnly) == nPages < limit

\* line 109
ShouldExtractLinks(nPages, limit, hpOnly) == nPages < limit /\ ~hpOnly

\* line 125
ShouldDelay(tv) == Len(tv) > 0

\* a run that gives up on a null from fetchPage
AbortAfterFetchFailed(tv) == "done"

\* lines 94, 124-127: pageData is null, the iteration falls through to the delay
AfterFetchFailed(tv) == IF ShouldDelay(tv) THEN "delay" ELSE "loop"

\* the alternatives requested to the end, whatever they yield
StopAtLastLocation(got, i) == i = 4

\* lines 482, 507-510: the loop over the alternatives ends with the list, or breaks
StopAfter(got, i) == Len(got) > 0 \/ i = 4

\* the URLs appended to the frontier old to give new
Pushed(old, new) == SubSeq(new, Len(old) + 1, Len(new))

\* no auditPages call, no classifier call
AuditIdle ==
    /\ apc = "idle" /\ urls = <<>> /\ idx = 1 /\ results = <<>>
    /\ submitted = <<>> /\ responses = <<>> /\ auditDelays = 0

ClassifyIdle == cpc = "idle" /\ data = <<>> /\ classified = <<>>

ReportIdle ==
    /\ rpc = "idle" /\ reportResults = <<>> /\ summary = <<>> /\ csvRows = <<>>
    /\ jsonReport = <<>>
    /\ kpc = "idle" /\ categoryCounts = <<>> /\ categorySummary = <<>>

NormalizeIdle == npc = "idle" /\ normalizeInput = NoUrl /\ normalized = <<>>

NoBody == [route |-> "none"]

NoReply == [status |-> 0]

\* a request that has not arrived
NotArrived ==
    [pc |-> "free", body |-> NoBody, urls |-> <<>>, idx |-> 1, results |-> <<>>,
     since |-> 0, status |-> 0, auditId |-> <<>>]

\* the requests to POST /api/audit that may be in progress together
HandlerIds == {1, 2}

NoHandlers == [h \in HandlerIds |-> NotArrived]

\* no server
ServerOff ==
    /\ hpc = "off" /\ body = NoBody /\ reply = NoReply /\ auditHistory = <<>> /\ served = 0
    /\ handlers = NoHandlers /\ now = 0

\* depthOf with the URLs of seq first pushed at depth d
RECURSIVE Discovered(_, _, _)
Discovered(depths, seq, d) ==
    IF seq = <<>> THEN depths
    ELSE Discovered(IF Head(seq) \in DOMAIN depths THEN depths
                    ELSE (Head(seq) :> d) @@ depths, Tail(seq), d)

\* some link of a page at depth d leads to a URL recorded deeper than d + 1
Shortens(depths, links, d) ==
    \E i \in 1..Len(links) :
        LET n == normalizeUrl(links[i])
        IN  n \in DOMAIN depths /\ depths[n] > d + 1

InitRun(seeds, limits, modes) ==
    /\ mainUrl \in seeds
    /\ maxPages \in limits
    /\ homepageOnly \in modes
    /\ baseUrl = normalizeUrl(mainUrl)
    /\ visited = {}
    /\ toVisit = IF homepageOnly THEN ReSeed(<<baseUrl>>, baseUrl) ELSE <<baseUrl>>
    /\ pages = <<>>
    /\ failedUrls = <<>>
    /\ currentUrl = NoUrl
    /\ smIdx = 0
    /\ smUrls = <<>>
    /\ pc = IF homepageOnly THEN "loop" ELSE "sitemap"
    /\ requests = <<>>
    /\ smRequests = <<>>
    /\ fetchedFrom = <<>>
    /\ enqueued = (baseUrl :> 1)
    /\ depthOf = (baseUrl :> 0)
    /\ shortcut = FALSE
    /\ extractCalls = 0
    /\ lastStep = "none"
    /\ delayed = FALSE
    /\ smAnswered = <<>>
    /\ smReturned = <<>>
    /\ lastFetch = NoFetch

InitCrawl ==
    InitRun(SeedUrls, 1..MaxPagesBound, BOOLEAN)
    /\ AuditIdle /\ ClassifyIdle /\ ReportIdle /\ NormalizeIdle /\ ServerOff

\* getSitemapUrls returned sitemapUrls: lines 50-72
SeedFrontier(sitemapUrls) ==
    LET tv == ReSeed(IF Len(sitemapUrls) > 0
                       THEN EnqueueSitemapUrls(toVisit, visited, baseUrl, sitemapUrls)
                       ELSE toVisit, baseUrl)
    IN  /\ toVisit' = tv
        /\ enqueued' = CountedAll(enqueued, Pushed(toVisit, tv))
        /\ depthOf' = Discovered(depthOf, Pushed(toVisit, tv), 1)
        /\ pc' = "loop"

\* one request of getSitemapUrls; ok: it answered, locs: its <loc> values
SitemapRequest(ok, locs) ==
    /\ pc = "sitemap"
    /\ UNCHANGED <<auditVars, classifyVars, reportVars, normalizeVars, serverVars>>
    /\ LET domain == baseUrl.host
           found == smUrls \o ParseSitemap(locs, domain)
           asked == Append(smRequests, SitemapLocations[smIdx + 1])
           return(list) == /\ smUrls' = <<>>
                           /\ smIdx' = 0
                           /\ smRequests' = asked
                           /\ smReturned' = list
                           /\ SeedFrontier(list)
       IN  IF smIdx = 0
             THEN IF ok
                    THEN return(found)
                    ELSE /\ smIdx' = 1
                         /\ smRequests' = asked
                         /\ UNCHANGED <<smUrls, smReturned, toVisit, enqueued, depthOf, pc>>
             ELSE LET got == IF ok THEN found ELSE smUrls
                  IN  IF StopAfter(got, smIdx)
                        THEN return(got)
                        ELSE /\ smUrls' = got
                             /\ smIdx' = smIdx + 1
                             /\ smRequests' = asked
                             /\ UNCHANGED <<smReturned, toVisit, enqueued, depthOf, pc>>
    /\ smAnswered' = Append(smAnswered, ok)
    /\ UNCHANGED <<mainUrl, maxPages, homepageOnly, baseUrl, visited, pages, failedUrls,
                   currentUrl, requests, fetchedFrom, shortcut, extractCalls, lastStep,
                   delayed, lastFetch>>

\* line 80 false: lines 135-139
LoopExit ==
    /\ pc = "loop"
    /\ UNCHANGED <<auditVars, classifyVars, reportVars, normalizeVars, serverVars>>
    /\ ~LoopGuard
    /\ pc' = "done"
    /\ smRequests' = <<>> /\ smAnswered' = <<>> /\ smReturned' = <<>>
    /\ lastFetch' = NoFetch
    /\ UNCHANGED <<mainUrl, maxPages, homepageOnly, baseUrl, visited, toVisit, pages,
                   failedUrls, currentUrl, smIdx, smUrls, requests,
                   fetchedFrom, enqueued, depthOf, shortcut, extractCalls, lastStep,
                   delayed>>

\* lines 81-92: shift, the visited check, visited.add, the call of fetchPage
Dequeue ==
    /\ pc = "loop"
    /\ UNCHANGED <<auditVars, classifyVars, reportVars, normalizeVars, serverVars>>
    /\ LoopGuard
    /\ LET cur == Shift(toVisit).url
       IN  /\ toVisit' = Shift(toVisit).rest
           /\ currentUrl' = cur
           /\ IF AlreadyVisited(cur, visited)
                THEN /\ lastStep' = "skipped"
                     /\ UNCHANGED <<visited, requests, pc, delayed>>
                ELSE /\ visited' = visited \cup {normalizeUrl(cur)}
                     /\ requests' = Counted(requests, cur)
                     /\ lastStep' = "fetching"
                     /\ delayed' = FALSE
                     /\ pc' = "fetch"
    /\ smRequests' = <<>> /\ smAnswered' = <<>> /\ smReturned' = <<>>
    /\ lastFetch' = NoFetch
    /\ UNCHANGED <<mainUrl, maxPages, homepageOnly, baseUrl, pages, failedUrls, smIdx,
                   smUrls, fetchedFrom, enqueued, depthOf, shortcut,
                   extractCalls>>

\* lines 92-132: fetchPage returned; html: the anchors of the page;
\* throws: the page data makes is404Page throw (a body that is no string)
FetchReturn(outcome, corrected, html, notFound, throws) ==
    /\ pc = "fetch"
    /\ UNCHANGED <<auditVars, classifyVars, reportVars, normalizeVars, serverVars>>
    /\ LET r == fetchPage(currentUrl, outcome, corrected, notFound)
           domain == baseUrl.host
       IN  IF r = <<>>
             THEN /\ lastStep' = "failed"
                  /\ pc' = AfterFetchFailed(toVisit)
                  /\ UNCHANGED <<pages, fetchedFrom, toVisit, enqueued, depthOf,
                                 shortcut, extractCalls, failedUrls>>
             ELSE IF is404Page(currentUrl, r[1])
             THEN /\ lastStep' = "404"
                  /\ pc' = "loop"
                  /\ UNCHANGED <<pages, fetchedFrom, toVisit, enqueued, depthOf,
                                 shortcut, extractCalls, failedUrls>>
             ELSE IF throws
             THEN /\ lastStep' = "threw"
                  /\ failedUrls' = Append(failedUrls, currentUrl)
                  /\ pc' = "loop"
                  /\ UNCHANGED <<pages, fetchedFrom, toVisit, enqueued, depthOf,
                                 shortcut, extractCalls>>
             ELSE IF isExcludedFile(currentUrl)
             THEN /\ lastStep' = "excluded"
                  /\ pc' = "loop"
                  /\ UNCHANGED <<pages, fetchedFrom, toVisit, enqueued, depthOf,
                                 shortcut, extractCalls, failedUrls>>
             ELSE /\ lastStep' = "added"
                  /\ pages' = Append(pages, r[1])
                  /\ fetchedFrom' = Append(fetchedFrom, currentUrl)
                  /\ IF ShouldExtractLinks(Len(pages'), maxPages, homepageOnly)
                       THEN LET links == extractLinks(html, domain)
                                tv == EnqueueLinks(toVisit, visited, links)
                                d == depthOf[currentUrl]
                            IN  /\ toVisit' = tv
                                /\ enqueued' = CountedAll(enqueued, Pushed(toVisit, tv))
                                /\ depthOf' = Discovered(depthOf, Pushed(toVisit, tv), d + 1)
                                /\ shortcut' = (shortcut \/ Shortens(depthOf, links, d))
                                /\ extractCalls' = extractCalls + 1
                       ELSE UNCHANGED <<toVisit, enqueued, depthOf, shortcut, extractCalls>>
                  /\ pc' = IF ShouldDelay(toVisit') THEN "delay" ELSE "loop"
                  /\ UNCHANGED failedUrls
    /\ lastFetch' = [outcome |-> outcome,
                     gets |-> fetchPageGets(currentUrl, outcome, corrected)]
    /\ UNCHANGED <<mainUrl, maxPages, homepageOnly, baseUrl, visited, currentUrl, smIdx,
                   smUrls, smRequests, requests, delayed, smAnswered, smReturned>>

\* line 126: the politeness delay elapsed
Delay ==
    /\ pc = "delay"
    /\ UNCHANGED <<auditVars, classifyVars, reportVars, normalizeVars, serverVars>>
    /\ pc' = "loop"
    /\ delayed' = TRUE
    /\ UNCHANGED <<mainUrl, maxPages, homepageOnly, baseUrl, visited, toVisit, pages,
                   failedUrls, currentUrl, smIdx, smUrls, requests, smRequests,
                   fetchedFrom, enqueued, depthOf, shortcut, extractCalls, lastStep,
                   smAnswered, smReturned, lastFetch>>

HtmlChoices == SeqsUpTo(LinkUniverse, MaxLinks)

\* the anchors of a response matter only when the crawl reads them
HtmlRead(choices, outcome, notFound, throws) ==
    IF \/ outcome = "fail" \/ notFound \/ throws
       \/ ~ShouldExtractLinks(Len(pages) + 1, maxPages, homepageOnly)
      THEN {<<>>}
      ELSE choices

FetchReturnsTo(choices, targets) ==
    \E outcome \in FetchOutcomes, corrected \in targets,
       notFound \in BOOLEAN, throws \in BOOLEAN :
       \E html \in HtmlRead(choices, outcome, notFound, throws) :
          FetchReturn(outcome, corrected, html, notFound, throws)

FetchReturns(choices) == FetchReturnsTo(choices, CorrectedUrls)

NextCrawl ==
    \/ \E ok \in BOOLEAN, locs \in HtmlChoices : SitemapRequest(ok, locs)
    \/ LoopExit
    \/ Dequeue
    \/ FetchReturns(HtmlChoices)
    \/ Delay

SpecCrawl == InitCrawl /\ [][NextCrawl]_vars

\* Every awaited request settles (axios timeout, line 146) and the delay timer
\* fires (line 521); between awaits the loop runs on: a run that can take a
\* step takes one.
SpecCrawlFair == InitCrawl /\ [][NextCrawl]_vars /\ WF_vars(NextCrawl)

(***************************************************************************)
(* Runs in which the sitemap seeds nothing: the site is reached through    *)
(* links only, from the root.                                              *)
(***************************************************************************)
BfsLinks == {PageA, PageA2, PageB, PageEn}

BfsHtmlChoices == SeqsUpTo(BfsLinks, MaxLinks)

InitBfs ==
    /\ InitRun({Url("", SeedHost, "", 0, "")}, 1..BfsMaxPages, {FALSE})
    /\ AuditIdle /\ ClassifyIdle /\ ReportIdle /\ NormalizeIdle /\ ServerOff

NextBfs ==
    \/ \E ok \in BOOLEAN : SitemapRequest(ok, <<>>)
    \/ LoopExit
    \/ Dequeue
    \/ FetchReturns(BfsHtmlChoices)
    \/ Delay

SpecBfs == InitBfs /\ [][NextBfs]_vars

(***************************************************************************)
(* AuditService: text values.  A string is the sequence of its pieces      *)
(* (single characters where the case matters); '' and a missing field are  *)
(* both the empty sequence, as both are falsy in `a || b`.                 *)
(***************************************************************************)
Capitals == <<"A", "B", "C", "D", "E", "F", "G", "H", "I", "J", "K", "L", "M",
              "N", "O", "P", "Q", "R", "S", "T", "U", "V", "W", "X", "Y", "Z">>

Letters == <<"a", "b", "c", "d", "e", "f", "g", "h", "i", "j", "k", "l", "m",
             "n", "o", "p", "q", "r", "s", "t", "u", "v", "w", "x", "y", "z">>

LowerChar(c) ==
    IF \E i \in DOMAIN Capitals : Capitals[i] = c
      THEN Letters[CHOOSE i \in DOMAIN Capitals : Capitals[i] = c]
      ELSE c

SameCase(text) == text

\* String.prototype.toLowerCase
Lower(text) == [i \in DOMAIN text |-> LowerChar(text[i])]

\* item.f of a text field (undefined and '' alike)
Text(item, f) == IF f \in DOMAIN item THEN item[f] ELSE <<>>

\* item.f of a string field
Str(item, f) == IF f \in DOMAIN item THEN item[f] ELSE ""

\* item.f of a numeric field (undefined and 0 alike under `|| 0`)
Num(item, f) == IF f \in DOMAIN item THEN item[f] ELSE 0

\* a || b || c on texts
FirstTruthy(a, b, c) == IF a # <<>> THEN a ELSE IF b # <<>> THEN b ELSE c

\* a || b on strings
OrStr(a, b) == IF a # "" THEN a ELSE b

\* text.replace(piece, ''): the first occurrence only
RECURSIVE ReplaceFirst(_, _)
ReplaceFirst(text, piece) ==
    IF text = <<>> THEN <<>>
    ELSE IF Head(text) = piece THEN Tail(text)
    ELSE <<Head(text)>> \o ReplaceFirst(Tail(text), piece)

\* target.join(', ')
RECURSIVE Join(_)
Join(target) ==
    IF target = <<>> THEN <<>>
    ELSE IF Len(target) = 1 THEN <<target[1]>>
    ELSE <<target[1], ", ">> \o Join(Tail(target))

T_failed == <<"f", "a", "i", "l", "e", "d">>
T_passed == <<"p", "a", "s", "s", "e", "d">>
T_incomplete == <<"i", "n", "c", "o", "m", "p", "l", "e", "t", "e">>
T_inapplicable == <<"i", "n", "a", "p", "p", "l", "i", "c", "a", "b", "l", "e">>
T_na == <<"n", "a">>
T_NA == <<"N", "A">>
T_Incomplete == <<"I", "n", "c", "o", "m", "p", "l", "e", "t", "e">>

(***************************************************************************)
(* AuditService: the issue classifier                                      *)
(***************************************************************************)
\* lines 261-262: excludedStatuses and excludedTypes hold the same four words
ExcludedStatuses == {T_passed, T_incomplete, T_inapplicable, T_na}

\* lines 267-268
ItemStatus(item) ==
    Lower(FirstTruthy(Text(item, "status"), Text(item, "type"), Text(item, "result")))

ItemType(item) ==
    Lower(FirstTruthy(Text(item, "type"), Text(item, "status"), Text(item, "result")))

\* the filter callback of lines 265-277 and 280-292
KeepItem(item) ==
    IF ItemStatus(item) \in ExcludedStatuses \/ ItemType(item) \in ExcludedStatuses
      THEN FALSE
      ELSE Len(Text(item, "nodes")) > 0

\* Array.prototype.filter
RECURSIVE Filter(_)
Filter(items) ==
    IF items = <<>> THEN <<>>
    ELSE IF KeepItem(Head(items)) THEN <<Head(items)>> \o Filter(Tail(items))
    ELSE Filter(Tail(items))

\* a filter that lets the passes through
filterKeepingPasses(d) ==
    [violations |-> Filter(Text(d, "violations")),
     incomplete |-> Filter(Text(d, "incomplete")),
     passes |-> Text(d, "passes"),
     inapplicable |-> <<>>]

filterExcludedIssues(d) ==
    [violations |-> Filter(Text(d, "violations")),
     incomplete |-> Filter(Text(d, "incomplete")),
     passes |-> <<>>,
     inapplicable |-> <<>>]

getDefaultImpact(level) ==
    CASE level = "error" -> "serious"
      [] level = "warning" -> "moderate"
      [] level = "hint" -> "minor"
      [] OTHER -> "moderate"

\* line 351: item.category || item.tags?.[0]?.replace('cat.', '') || 'other'
Category(item) ==
    LET tags == Text(item, "tags")
        first == IF tags = <<>> THEN <<>> ELSE ReplaceFirst(tags[1], "cat.")
    IN  FirstTruthy(Text(item, "category"), first, <<"other">>)

\* the pieces of a title that are markup, and the blank
TagPieces == {"<b>", "</b>", "<code>", "</code>"}

Blank == " "

RECURSIVE StripTags(_)
StripTags(text) ==
    IF text = <<>> THEN <<>>
    ELSE IF Head(text) \in TagPieces THEN StripTags(Tail(text))
    ELSE <<Head(text)>> \o StripTags(Tail(text))

\* String.prototype.trim
RECURSIVE Trim(_)
Trim(text) ==
    IF text = <<>> THEN <<>>
    ELSE IF Head(text) = Blank THEN Trim(Tail(text))
    ELSE IF text[Len(text)] = Blank THEN Trim(SubSeq(text, 1, Len(text) - 1))
    ELSE text

\* lines 415-418: html.replace(/<[^>]*>/g, '').trim()
cleanHtml(html) == IF html = <<>> THEN <<>> ELSE Trim(StripTags(html))

\* item.title || item.id || ''
TitleSource(item) ==
    IF Text(item, "title") # <<>> THEN item.title
    ELSE IF Str(item, "id") # "" THEN <<item.id>>
    ELSE <<>>

\* lines 356-376 and 380-400: the issue of one node; node is <<>> where the
\* literal of the item without nodes has ''.  help, helpUrl, guidelines,
\* whyImportant, howToFix, disabilityTypesAffected and wcagReferences are
\* left out.
IssueOf(item, level, node) ==
    [id |-> OrStr(Str(item, "id"), Str(item, "actRuleId")),
     title |-> cleanHtml(TitleSource(item)),
     description |-> Text(item, "description"),
     category |-> Category(item),
     level |-> level,
     impact |-> OrStr(Str(item, "impact"), getDefaultImpact(level)),
     selector |-> Join(Text(node, "target")),
     html |-> Str(node, "html"),
     failureSummary |-> Str(node, "failureSummary"),
     tags |-> Text(item, "tags")]

\* one issue for the finding, whatever its nodes
createIssuesOnePerItem(item, level) == <<IssueOf(item, level, <<>>)>>

createIssuesFromItem(item, level) ==
    LET nodes == Text(item, "nodes")
    IN  IF Len(nodes) > 0
          THEN [j \in 1..Len(nodes) |-> IssueOf(item, level, nodes[j])]
          ELSE <<IssueOf(item, level, <<>>)>>

\* items.forEach(item => lane.push(...createIssuesFromItem(item, level)))
RECURSIVE Expand(_, _)
Expand(items, level) ==
    IF items = <<>> THEN <<>>
    ELSE createIssuesFromItem(Head(items), level) \o Expand(Tail(items), level)

\* a bucketing that files the incomplete findings with the errors
transformIntoOneLane(d) ==
    LET errors == Expand(Text(d, "violations"), "error")
                      \o Expand(Text(d, "incomplete"), "warning")
    IN  [errors |-> errors, warnings |-> <<>>, hints |-> <<>>,
         totalIssues |-> Len(errors)]

\* a total that counts the findings instead of their issues
transformCountingFindings(d) ==
    LET errors == Expand(Text(d, "violations"), "error")
        warnings == Expand(Text(d, "incomplete"), "warning")
        hints == Expand(Text(d, "passes"), "hint")
    IN  [errors |-> errors, warnings |-> warnings, hints |-> hints,
         totalIssues |-> Len(Text(d, "violations")) + Len(Text(d, "incomplete"))
                         + Len(Text(d, "passes"))]

\* lines 307-347
transformAndCategorizeIssues(d) ==
    LET errors == Expand(Text(d, "violations"), "error")
        warnings == Expand(Text(d, "incomplete"), "warning")
        hints == Expand(Text(d, "passes"), "hint")
    IN  [errors |-> errors, warnings |-> warnings, hints |-> hints,
         totalIssues |-> Len(errors) + Len(warnings) + Len(hints)]

(***************************************************************************)
(* AuditService: one page                                                  *)
(***************************************************************************)
\* a response body of null
Null == [null |-> TRUE]

Returned(v) == [threw |-> FALSE, value |-> v]

Thrown(m) == [threw |-> TRUE, message |-> m]

\* lines 222-254; the timestamp is left out
processAuditData(url, d) ==
    IF d = Null THEN Thrown(<<"TypeError">>)       \* line 223 reads data.results
    ELSE LET raw == IF "results" \in DOMAIN d THEN d.results ELSE d
             processedData == transformAndCategorizeIssues(filterExcludedIssues(raw))
             statistics == IF "statistics" \in DOMAIN raw THEN raw.statistics ELSE <<>>
         IN  Returned(
               [url |-> url,
                summary |-> [totalIssues |-> processedData.totalIssues,
                             errors |-> Len(processedData.errors),
                             warnings |-> Len(processedData.warnings),
                             hints |-> Len(processedData.hints),
                             pagesWithIssues |-> IF processedData.totalIssues > 0 THEN 1 ELSE 0,
                             criticalIssues |-> Num(statistics, "criticalIssues"),
                             seriousIssues |-> Num(statistics, "seriousIssues"),
                             moderateIssues |-> Num(statistics, "moderateIssues")],
                issues |-> [errors |-> processedData.errors,
                            warnings |-> processedData.warnings,
                            hints |-> processedData.hints],
                rawData |-> raw])

\* lines 170-220: response is what axios.post settled with
auditSinglePage(url, response) ==
    CASE response.kind = "resolved" ->
           IF response.status # 200
             THEN Thrown(<<"API returned status ", ToString(response.status)>>)
             ELSE processAuditData(url, response.data)
      [] response.kind = "errorResponse" ->
           Thrown(<<"API Error: ", OrStr(response.message, response.statusText)>>)
      [] response.kind = "noResponse" ->
           Thrown(<<"Network error: Unable to reach the API">>)
      [] OTHER -> Thrown(<<response.message>>)

\* lines 138-157 without the error field
ErrorResultNoError(url, message) ==
    [url |-> url,
     summary |-> [totalIssues |-> 0, errors |-> 0, warnings |-> 0, hints |-> 0,
                  pagesWithIssues |-> 0, criticalIssues |-> 0, seriousIssues |-> 0,
                  moderateIssues |-> 0],
     issues |-> [errors |-> <<>>, warnings |-> <<>>, hints |-> <<>>]]

\* lines 138-157; the timestamp is left out
ErrorResult(url, message) ==
    [url |-> url,
     error |-> message,
     summary |-> [totalIssues |-> 0, errors |-> 0, warnings |-> 0, hints |-> 0,
                  pagesWithIssues |-> 0, criticalIssues |-> 0, seriousIssues |-> 0,
                  moderateIssues |-> 0],
     issues |-> [errors |-> <<>>, warnings |-> <<>>, hints |-> <<>>]]

\* a loop body that drops the URL whose audit threw
TryAuditDropFailed(res, url, outcome) ==
    IF outcome.threw THEN res ELSE Append(res, outcome.value)

\* lines 131-158: the try / catch of one iteration
TryAudit(res, url, outcome) ==
    IF outcome.threw
      THEN Append(res, ErrorResult(url, outcome.message))
      ELSE Append(res, outcome.value)                 \* an AuditResult is truthy

\* a delay after every URL
DelayAfterEach(i, n) == TRUE

\* line 161, i counted from 0
DelayBetween(i, n) == i < n - 1

(***************************************************************************)
(* Sample payloads and responses of the accessibility API                  *)
(***************************************************************************)
Target(id, j) == <<id \o "-n" \o ToString(j)>>

Nodes(id, n) ==
    [j \in 1..n |-> [target |-> Target(id, j), html |-> "<a>",
                     failureSummary |-> "Fix any of the following"]]

TagsColor == << <<"cat.", "color">>, <<"wcag2aa">> >>

\* ['wcag2a', 'cat.forms']
TagsWcagFirst == << <<"wcag2a">>, <<"cat.", "forms">> >>

CleanPayload == [violations |-> <<>>, incomplete |-> <<>>, passes |-> <<>>]

IssuesPayload ==
    [results |->
       [violations |-> << [id |-> "v1", status |-> T_failed, impact |-> "critical",
                           tags |-> TagsColor, nodes |-> Nodes("v1", 2)],
                          [id |-> "v2", status |-> T_passed, nodes |-> Nodes("v2", 1)] >>,
        incomplete |-> << [id |-> "i1", nodes |-> Nodes("i1", 1)] >>,
        passes |-> << [id |-> "p1", nodes |-> Nodes("p1", 1)] >>,
        statistics |-> [criticalIssues |-> 2]]]

SamplePayloads == {Null, CleanPayload, IssuesPayload}

Responses ==
    {[kind |-> "resolved", status |-> 200, data |-> p] : p \in SamplePayloads}
    \cup {[kind |-> "resolved", status |-> 204, data |-> CleanPayload]}
    \cup {[kind |-> "errorResponse", status |-> 401, message |-> "Invalid API key",
           statusText |-> "Unauthorized"],
          [kind |-> "errorResponse", status |-> 403, message |-> "", statusText |-> ""],
          [kind |-> "errorResponse", status |-> 500, message |-> "", statusText |-> ""],
          [kind |-> "errorResponse", status |-> 502, message |-> "",
           statusText |-> "Bad Gateway"]}
    \cup {[kind |-> "noResponse"]}
    \cup {[kind |-> "setup", message |-> "Invalid URL"]}

AuditUrls == {PageA, PageB}

(***************************************************************************)
(* AuditService.auditPages                                                 *)
(***************************************************************************)
\* no crawl is running
CrawlIdle ==
    /\ pc = "idle" /\ mainUrl = NoUrl /\ maxPages = 1 /\ homepageOnly = FALSE
    /\ baseUrl = NoUrl /\ visited = {} /\ toVisit = <<>> /\ pages = <<>>
    /\ failedUrls = <<>> /\ currentUrl = NoUrl /\ smIdx = 0 /\ smUrls = <<>>
    /\ requests = <<>> /\ smRequests = <<>> /\ fetchedFrom = <<>> /\ enqueued = <<>>
    /\ depthOf = <<>> /\ shortcut = FALSE /\ extractCalls = 0 /\ lastStep = "none"
    /\ delayed = FALSE /\ smAnswered = <<>> /\ smReturned = <<>> /\ lastFetch = NoFetch

InitAudit ==
    /\ urls \in SeqsUpTo(AuditUrls, MaxUrls)
    /\ idx = 1
    /\ results = <<>>
    /\ apc = IF Len(urls) > 0 THEN "request" ELSE "done"     \* line 127
    /\ submitted = <<>>
    /\ responses = <<>>
    /\ auditDelays = 0
    /\ CrawlIdle /\ ClassifyIdle /\ ReportIdle /\ NormalizeIdle /\ ServerOff

\* lines 127-132 and 191: the request for urls[i] is posted
Submit ==
    /\ apc = "request"
    /\ submitted' = Append(submitted, urls[idx])
    /\ apc' = "response"
    /\ UNCHANGED <<urls, idx, results, responses, auditDelays, crawlVars, classifyVars, reportVars,
                   normalizeVars, serverVars>>

\* lines 132-163: the request settled; its outcome is recorded
Respond(response) ==
    /\ apc = "response"
    /\ results' = TryAudit(results, urls[idx], auditSinglePage(urls[idx], response))
    /\ responses' = Append(responses, response)
    /\ IF DelayBetween(idx - 1, Len(urls))
         THEN apc' = "delay" /\ idx' = idx
         ELSE IF idx < Len(urls)
                THEN apc' = "request" /\ idx' = idx + 1
                ELSE apc' = "done" /\ idx' = idx
    /\ UNCHANGED <<urls, submitted, auditDelays, crawlVars, classifyVars, reportVars,
                   normalizeVars, serverVars>>

\* line 162: the delay elapsed; the loop goes on, or ends at line 127
AuditDelay ==
    /\ apc = "delay"
    /\ auditDelays' = auditDelays + 1
    /\ IF idx < Len(urls)
         THEN apc' = "request" /\ idx' = idx + 1
         ELSE apc' = "done" /\ idx' = idx
    /\ UNCHANGED <<urls, results, submitted, responses, crawlVars, classifyVars, reportVars,
                   normalizeVars, serverVars>>

NextAudit ==
    \/ Submit
    \/ \E response \in Responses : Respond(response)
    \/ AuditDelay

SpecAudit == InitAudit /\ [][NextAudit]_vars

(***************************************************************************)
(* The issue classifier applied to the payloads of a bounded family        *)
(***************************************************************************)
\* the status / type / result fields of the findings drawn
FindingKinds ==
    {[status |-> T_failed, title |-> <<"<b>", "Low contrast", "</b>", " ">>],
     [status |-> T_passed],
     [status |-> T_NA],
     [status |-> T_failed, type |-> T_Incomplete],
     [tags |-> TagsColor]}

NodeCounts == {0, 1, MaxNodes}

Finding(lane, i, kind, n) ==
    LET id == lane \o ToString(i)
    IN  [id |-> id, nodes |-> Nodes(id, n)] @@ kind

\* a violations list: the findings of the kinds and node counts c, identified
\* by position
Violations(c) == [i \in DOMAIN c |-> Finding("v", i, c[i][1], c[i][2])]

IncompleteLists ==
    {<<>>,
     <<Finding("i", 1, [result |-> T_inapplicable], 1), Finding("i", 2, [impact |-> "minor", tags |-> TagsWcagFirst], 1)>>}

PassesList == <<Finding("p", 1, [status |-> T_passed], 1)>>

Payload(c, w) == [violations |-> Violations(c), incomplete |-> w, passes |-> PassesList]

\* payloads of up to MaxFindings violations
InitClassify ==
    /\ \E k \in 0..MaxFindings :
          \E c \in [1..k -> FindingKinds \X NodeCounts], w \in IncompleteLists :
             data = Payload(c, w)
    /\ cpc = "ready"
    /\ classified = <<>>
    /\ CrawlIdle /\ AuditIdle /\ ReportIdle /\ NormalizeIdle /\ ServerOff

\* lines 226-229: the two classifier steps of processAuditData
Classify ==
    /\ cpc = "ready"
    /\ classified' = transformAndCategorizeIssues(filterExcludedIssues(data))
    /\ cpc' = "done"
    /\ UNCHANGED <<data, crawlVars, auditVars, reportVars, normalizeVars, serverVars>>

NextClassify == Classify

SpecClassify == InitClassify /\ [][NextClassify]_vars

(***************************************************************************)
(* ReportService: the summary                                              *)
(***************************************************************************)
\* line 35: if (result.error)
HasError(result) == Text(result, "error") # <<>>

\* a test that takes no result for an error result
NeverError(result) == FALSE

\* line 35, as the skip condition of the summary
SkipInSummary(result) == HasError(result)

\* lines 79-95; an issue is never null here
isViolationIssue(issue) ==
    LET issueStatus == Lower(FirstTruthy(Text(issue, "status"), Text(issue, "type"),
                                         Text(issue, "result")))
        issueType == Lower(FirstTruthy(Text(issue, "type"), Text(issue, "status"),
                                       Text(issue, "result")))
    IN  IF issueStatus \in ExcludedStatuses \/ issueType \in ExcludedStatuses
          THEN FALSE
          ELSE \/ Text(issue, "title") # <<>>
               \/ Text(issue, "description") # <<>>
               \/ Text(issue, "help") # <<>>
               \/ Text(issue, "howToFix") # <<>>

\* line 53: Object.values(result.issues).flat()
FlatIssues(result) ==
    IF "issues" \in DOMAIN result
      THEN Text(result.issues, "errors") \o Text(result.issues, "warnings")
           \o Text(result.issues, "hints")
      ELSE <<>>

\* Object.assign(issue, fields): the fields are written into the issue itself
AssignTo(issue, fields) == [object |-> fields @@ issue, source |-> fields @@ issue]

\* lines 55-59 and 270-274, { ...issue, pageUrl, ... }: a new object with the
\* fields of the issue and the named ones over them; source is the issue as
\* the expression leaves it
Spread(issue, fields) == [object |-> fields @@ issue, source |-> issue]

\* a result whose issues are as After leaves them, lane by lane
LanesAfter(result, After(_, _)) ==
    IF "issues" \notin DOMAIN result THEN result
    ELSE LET lanes == result.issues
         IN  [result EXCEPT !.issues =
                 [lane \in DOMAIN lanes |->
                     [n \in 1..Len(lanes[lane]) |-> After(lanes[lane][n], lane)]]]

\* the two halves of a list of two or more
FirstHalf(list) == SubSeq(list, 1, Len(list) \div 2)

SecondHalf(list) == SubSeq(list, Len(list) \div 2 + 1, Len(list))

\* lines 53-66 for one result: the issues pushed to allIssues (pageTitle is
\* left out).  The loop over a list is the loop over its first half followed
\* by the loop over its second half.
RECURSIVE Collected(_, _)
Collected(issues, url) ==
    IF issues = <<>> THEN <<>>
    ELSE IF Len(issues) > 1
           THEN Collected(FirstHalf(issues), url) \o Collected(SecondHalf(issues), url)
    ELSE IF isViolationIssue(Head(issues))
           THEN <<Spread(Head(issues), [pageUrl |-> url]).object>>
           ELSE <<>>

\* lines 34-68: allIssues after the loop over the results
RECURSIVE AllCollected(_)
AllCollected(list) ==
    IF list = <<>> THEN <<>>
    ELSE IF SkipInSummary(Head(list)) THEN AllCollected(Tail(list))
    ELSE Collected(FlatIssues(Head(list)), Head(list).url) \o AllCollected(Tail(list))

\* line 63: issue.category || 'other'
CategoryKey(issue) == FirstTruthy(Text(issue, "category"), <<"other">>, <<"other">>)

\* lines 63-64: categoryCounts after the loop
CategoryCounts(allIssues) ==
    [c \in {CategoryKey(allIssues[i]) : i \in 1..Len(allIssues)} |->
        Cardinality({i \in 1..Len(allIssues) : CategoryKey(allIssues[i]) = c})]

\* the counters of lines 42-49 summed over the results that are not skipped
RECURSIVE Total(_, _)
Total(list, field) ==
    IF list = <<>> THEN 0
    ELSE (IF SkipInSummary(Head(list)) THEN 0 ELSE Head(list).summary[field])
         + Total(Tail(list), field)

RECURSIVE PagesWithIssues(_)
PagesWithIssues(list) ==
    IF list = <<>> THEN 0
    ELSE (IF ~SkipInSummary(Head(list)) /\ Head(list).summary.totalIssues > 0 THEN 1 ELSE 0)
         + PagesWithIssues(Tail(list))

\* a percentage cut off instead of rounded
PercentageFloor(count, total) == IF total > 0 THEN (100 * count) \div total ELSE 0

\* line 113, Math.round(count / total * 100): for the totals that occur (all
\* below 40) the quotient in floating point rounds as the exact one
Percentage(count, total) == IF total > 0 THEN (200 * count + total) \div (2 * total) ELSE 0

RECURSIVE SumOver(_, _)
SumOver(f, S) ==
    IF S = {} THEN 0
    ELSE LET x == CHOOSE y \in S : TRUE IN f[x] + SumOver(f, S \ {x})

\* a category summary with an entry for 'other' in every case
generateCategorySummaryWithOther(counts) ==
    [c \in DOMAIN counts \cup {<<"other">>} |->
        [count |-> IF c \in DOMAIN counts THEN counts[c] ELSE 0, percentage |-> 0]]

\* lines 97-117; the display name is left out, and so is the order of the keys
generateCategorySummary(counts) ==
    LET total == SumOver(counts, DOMAIN counts)
    IN  [c \in DOMAIN counts |->
            [count |-> counts[c], percentage |-> Percentage(counts[c], total)]]

\* line 123: `${issue.id}-${issue.level}`
IssueKey(issue) == issue.id \o "-" \o issue.level

\* the positions of a list, in order
Positions(list) == [i \in 1..Len(list) |-> i]

\* the elements of a list without the repetitions, in the order of their
\* first occurrence: the order in which a Map or a Set of JavaScript holds
\* what was added to it
Distinct(list) ==
    LET firsts == SelectSeq(Positions(list),
                            LAMBDA i : \A j \in 1..(i - 1) : list[j] # list[i])
    IN  [n \in 1..Len(firsts) |-> list[firsts[n]]]

\* lines 122-137: the groups in the order of their first issue.  A group has
\* the fields of the first issue with its key, counts the issues with the
\* key, and holds their distinct URLs in the order they were added to the Set.
Grouped(issues) ==
    LET keys == Distinct([i \in 1..Len(issues) |-> IssueKey(issues[i])])
        Members(key) == SelectSeq(issues, LAMBDA issue : IssueKey(issue) = key)
    IN  [g \in 1..Len(keys) |->
            LET members == Members(keys[g])
                issue == members[1]
            IN  [key |-> keys[g], id |-> issue.id, title |-> issue.title,
                 level |-> issue.level, category |-> issue.category,
                 count |-> Len(members),
                 pages |-> Distinct([m \in 1..Len(members) |-> members[m].pageUrl]),
                 impact |-> issue.impact]]

\* Array.prototype.sort((a, b) => b.count - a.count): stable
RECURSIVE InsertByCount(_, _)
InsertByCount(sorted, e) ==
    IF sorted = <<>> THEN <<e>>
    ELSE IF Head(sorted).count >= e.count
           THEN <<Head(sorted)>> \o InsertByCount(Tail(sorted), e)
           ELSE <<e>> \o sorted

RECURSIVE SortByCount(_, _)
SortByCount(list, sorted) ==
    IF list = <<>> THEN sorted
    ELSE SortByCount(Tail(list), InsertByCount(sorted, Head(list)))

\* line 146
TopN == 10

\* Array.prototype.slice(0, n)
Slice(list, n) == SubSeq(list, 1, IF Len(list) < n THEN Len(list) ELSE n)

\* lines 119-147; the key of a group is internal to the grouping
generateTopIssues(allIssues) ==
    LET groups == Grouped(allIssues)
        entries == [g \in 1..Len(groups) |->
                      [id |-> groups[g].id, title |-> groups[g].title,
                       level |-> groups[g].level, category |-> groups[g].category,
                       count |-> groups[g].count, pages |-> groups[g].pages,
                       pageCount |-> Len(groups[g].pages), impact |-> groups[g].impact]]
    IN  Slice(SortByCount(entries, <<>>), TopN)

\* lines 18-77; the timestamp is left out
generateSummary(list) ==
    LET allIssues == AllCollected(list)
    IN  [totalPages |-> Len(list),
         pagesWithIssues |-> PagesWithIssues(list),
         totalIssues |-> Total(list, "totalIssues"),
         errors |-> Total(list, "errors"),
         warnings |-> Total(list, "warnings"),
         hints |-> Total(list, "hints"),
         categories |-> generateCategorySummary(CategoryCounts(allIssues)),
         topIssues |-> generateTopIssues(allIssues)]

(***************************************************************************)
(* ReportService: the CSV report.  A row is the tuple of its fields, the   *)
(* report the sequence of its rows: join(',') and join('\n') put commas    *)
(* and line breaks between them.                                           *)
(***************************************************************************)
CsvHeader ==
    <<"Page URL", "Critical Issues", "Serious Issues", "Moderate Issues", "Total Score">>

\* the query strings with a comma; no URL of the model has a quote or a line break
HasComma(url) == url.query = "t=1,2"

\* lines 281-288: a field with a comma is put in quotes
escapeCsvField(url) == [quoted |-> HasComma(url), value |-> url]

\* the three counters before the loop
NoSeverityCounts == [critical |-> 0, serious |-> 0, moderate |-> 0]

\* lines 232-263; the impacts of the model are in lower case.  The counters
\* of a list are the sums of the counters of its two halves.
RECURSIVE calculatePageSeverityCounts(_)
calculatePageSeverityCounts(issues) ==
    IF issues = <<>> THEN NoSeverityCounts
    ELSE IF Len(issues) > 1
           THEN LET a == calculatePageSeverityCounts(FirstHalf(issues))
                    b == calculatePageSeverityCounts(SecondHalf(issues))
                IN  [c \in DOMAIN a |-> a[c] + b[c]]
    ELSE LET issue == Head(issues)
             impact == OrStr(Str(issue, "impact"), "serious")
         IN  IF impact = "critical" THEN [NoSeverityCounts EXCEPT !.critical = 1]
             ELSE IF impact = "serious" THEN [NoSeverityCounts EXCEPT !.serious = 1]
             ELSE IF impact = "moderate" THEN [NoSeverityCounts EXCEPT !.moderate = 1]
             ELSE IF issue.level = "error" THEN [NoSeverityCounts EXCEPT !.serious = 1]
             ELSE [NoSeverityCounts EXCEPT !.moderate = 1]

\* a row of zeros and a full score for a result with an error
ErrorRowAsClean(result) == <<escapeCsvField(result.url), "0", "0", "0", "100">>

\* lines 203-209
ErrorRow(result) == <<escapeCsvField(result.url), "ERROR", "ERROR", "ERROR", "0">>

\* a row whose score is 100 minus the issues, below 0 too
DataRowUnclamped(result) ==
    LET severityCounts == calculatePageSeverityCounts(FlatIssues(result))
        totalIssues == severityCounts.critical + severityCounts.serious
                       + severityCounts.moderate
    IN  <<escapeCsvField(result.url), ToString(severityCounts.critical),
          ToString(severityCounts.serious), ToString(severityCounts.moderate),
          ToString(100 - totalIssues)>>

\* lines 214-226
DataRow(result) ==
    LET severityCounts == calculatePageSeverityCounts(FlatIssues(result))
        totalIssues == severityCounts.critical + severityCounts.serious
                       + severityCounts.moderate
        totalScore == IF 100 - totalIssues > 0 THEN 100 - totalIssues ELSE 0
    IN  <<escapeCsvField(result.url), ToString(severityCounts.critical),
          ToString(severityCounts.serious), ToString(severityCounts.moderate),
          ToString(totalScore)>>

\* lines 187-230
generateCsvReport(list) ==
    <<CsvHeader>> \o [i \in 1..Len(list) |->
                        IF HasError(list[i]) THEN ErrorRow(list[i]) ELSE DataRow(list[i])]

(***************************************************************************)
(* ReportService: the JSON report.  generatedAt and version are left out,  *)
(* and so is the timestamp of a result.                                    *)
(***************************************************************************)
\* lines 268-276 for one lane: level is the key of the lane in result.issues
FlattenLane(issues, lane, pageUrl) ==
    [n \in 1..Len(Text(issues, lane)) |->
        Spread(issues[lane][n], [pageUrl |-> pageUrl, level |-> lane]).object]

\* lines 265-279; Object.entries gives the lanes in the order auditPages
\* wrote them
flattenIssues(issues, pageUrl) ==
    FlattenLane(issues, "errors", pageUrl) \o FlattenLane(issues, "warnings", pageUrl)
    \o FlattenLane(issues, "hints", pageUrl)

\* lines 159-185
generateJsonReport(list, s) ==
    [summary |-> s,
     results |-> [i \in 1..Len(list) |->
                    IF HasError(list[i])
                      THEN [url |-> list[i].url, error |-> list[i].error]
                      ELSE [url |-> list[i].url, summary |-> list[i].summary,
                            issues |-> flattenIssues(list[i].issues, list[i].url)]]]

\* the results as generateSummary leaves them: lines 34-68 write to the
\* counters and to allIssues only
AfterSummary(list) ==
    [i \in 1..Len(list) |->
        IF SkipInSummary(list[i]) THEN list[i]
        ELSE LanesAfter(list[i],
               LAMBDA issue, lane :
                  IF isViolationIssue(issue)
                    THEN Spread(issue, [pageUrl |-> list[i].url]).source
                    ELSE issue)]

\* the results as generateJsonReport leaves them
AfterJsonReport(list) ==
    [i \in 1..Len(list) |->
        IF HasError(list[i]) THEN list[i]
        ELSE LanesAfter(list[i],
               LAMBDA issue, lane :
                  Spread(issue, [pageUrl |-> list[i].url, level |-> lane]).source)]

(***************************************************************************)
(* ReportService.generateDetailedReport(results, format) on the results of *)
(* a bounded family, and a later call of generateSummary on the same list  *)
(***************************************************************************)
PageQ == Url("https", SeedHost, "b", 0, "t=1,2")

\* the same rule on two nodes, and a finding to review
PayloadTwice ==
    [violations |-> << [id |-> "x", status |-> T_failed, tags |-> TagsColor,
                        title |-> <<"<b>", "Low contrast", "</b>">>,
                        nodes |-> Nodes("x", 2)] >>,
     incomplete |-> << [id |-> "y", nodes |-> Nodes("y", 1)] >>,
     passes |-> <<>>]

PayloadOnce ==
    [violations |-> << [id |-> "x", status |-> T_failed, tags |-> TagsColor,
                        title |-> <<"<b>", "Low contrast", "</b>">>,
                        nodes |-> Nodes("x", 1)] >>,
     incomplete |-> <<>>, passes |-> <<>>]

\* a finding identified by actRuleId, without id, title or description
PayloadUntitled ==
    [violations |-> << [actRuleId |-> "r1", status |-> T_failed, nodes |-> Nodes("r1", 1)] >>,
     incomplete |-> <<>>, passes |-> <<>>]

\* more rules than the top list holds, two of them on two nodes
PayloadMany ==
    [violations |-> [i \in 1..(TopN + 1) |->
                       Finding("m", i, [status |-> T_failed], IF i \in {3, 7} THEN 2 ELSE 1)],
     incomplete |-> <<>>, passes |-> <<>>]

SampleKinds == {"error", "errorWithIssues", "clean", "twice", "once", "untitled", "many"}

\* a result as auditPages builds it; "errorWithIssues" is a result posted to
\* /api/report with error set next to a summary and issues
SampleResult(kind, url) ==
    CASE kind = "error" -> ErrorResult(url, <<"Network error: Unable to reach the API">>)
      [] kind = "errorWithIssues" ->
           [error |-> <<"timeout">>] @@ processAuditData(url, PayloadTwice).value
      [] kind = "clean" -> processAuditData(url, CleanPayload).value
      [] kind = "twice" -> processAuditData(url, PayloadTwice).value
      [] kind = "once" -> processAuditData(url, PayloadOnce).value
      [] kind = "untitled" -> processAuditData(url, PayloadUntitled).value
      [] OTHER -> processAuditData(url, PayloadMany).value

\* every kind of result for one page, three kinds for the other
SampleChoices ==
    (SampleKinds \X {PageA}) \cup ({"error", "twice", "once"} \X {PageQ})

InitReport ==
    /\ \E k \in 0..MaxResults :
          \E f \in [1..k -> SampleChoices] :
             reportResults = [i \in 1..k |-> SampleResult(f[i][1], f[i][2])]
    /\ rpc = "ready"
    /\ summary = <<>>
    /\ csvRows = <<>>
    /\ jsonReport = <<>>
    /\ kpc = "idle" /\ categoryCounts = <<>> /\ categorySummary = <<>>
    /\ CrawlIdle /\ AuditIdle /\ ClassifyIdle /\ NormalizeIdle /\ ServerOff

\* line 150, and generateSummary called once more on the list that was
\* reported
GenerateSummary ==
    /\ rpc \in {"ready", "done", "reported"}
    /\ summary' = generateSummary(reportResults)
    /\ reportResults' = AfterSummary(reportResults)
    /\ rpc' = IF rpc = "ready" THEN "summarized" ELSE "resummarized"
    /\ UNCHANGED <<csvRows, jsonReport, kpc, categoryCounts, categorySummary,
                   crawlVars, auditVars, classifyVars, normalizeVars, serverVars>>

\* lines 152-153: generateCsvReport reads the results and writes to its rows
GenerateCsv ==
    /\ rpc = "summarized"
    /\ csvRows' = generateCsvReport(reportResults)
    /\ rpc' = "done"
    /\ UNCHANGED <<reportResults, summary, jsonReport, kpc, categoryCounts,
                   categorySummary,
                   crawlVars, auditVars, classifyVars, normalizeVars, serverVars>>

\* lines 154-156
GenerateJson ==
    /\ rpc = "summarized"
    /\ jsonReport' = generateJsonReport(reportResults, summary)
    /\ reportResults' = AfterJsonReport(reportResults)
    /\ rpc' = "reported"
    /\ UNCHANGED <<summary, csvRows, kpc, categoryCounts, categorySummary,
                   crawlVars, auditVars, classifyVars, normalizeVars, serverVars>>

NextReport == GenerateSummary \/ GenerateCsv \/ GenerateJson

SpecReport == InitReport /\ [][NextReport]_vars

(***************************************************************************)
(* ReportService.generateCategorySummary on the counts of a bounded family *)
(***************************************************************************)
CategoryNames == {<<"forms">>, <<"color">>, <<"aria">>, <<"other">>}

InitCategories ==
    /\ \E S \in SUBSET CategoryNames : categoryCounts \in [S -> 1..MaxCount]
    /\ kpc = "ready"
    /\ categorySummary = <<>>
    /\ rpc = "idle" /\ reportResults = <<>> /\ summary = <<>> /\ csvRows = <<>>
    /\ jsonReport = <<>>
    /\ CrawlIdle /\ AuditIdle /\ ClassifyIdle /\ NormalizeIdle /\ ServerOff

\* line 71
Categorize ==
    /\ kpc = "ready"
    /\ categorySummary' = generateCategorySummary(categoryCounts)
    /\ kpc' = "done"
    /\ UNCHANGED <<categoryCounts, rpc, reportResults, summary, csvRows, jsonReport,
                   crawlVars, auditVars, classifyVars, normalizeVars, serverVars>>

NextCategories == Categorize

SpecCategories == InitCategories /\ [][NextCategories]_vars

(***************************************************************************)
(* CrawlerService.normalizeUrl applied to its own result                   *)
(***************************************************************************)
NormalizeInputs ==
    {Url(s, h, p, t, q) : s \in {"", "http", "https"}, h \in {SeedHost, "other.test"},
                          p \in {"", "a", "en/x"}, t \in 0..MaxSlashes, q \in {"", "q=1"}}

InitNormalize ==
    /\ normalizeInput \in NormalizeInputs
    /\ normalized = <<>>
    /\ npc = "ready"
    /\ CrawlIdle /\ AuditIdle /\ ClassifyIdle /\ ReportIdle /\ ServerOff

\* lines 407-430, called with the URL given or with the result of the call before
Normalize ==
    /\ npc = "ready"
    /\ Len(normalized) < MaxCalls
    /\ normalized' = Append(normalized,
                            normalizeUrl(IF normalized = <<>> THEN normalizeInput
                                         ELSE normalized[Len(normalized)]))
    /\ UNCHANGED <<npc, normalizeInput, crawlVars, auditVars, classifyVars, reportVars,
                   serverVars>>

NextNormalize == Normalize

SpecNormalize == InitNormalize /\ [][NextNormalize]_vars

(***************************************************************************)
(* Properties of a crawl run                                               *)
(***************************************************************************)
PageUrls == [i \in 1..Len(pages) |-> pages[i].url]

\* C1: in every state of a crawl run, the final one included, the page list
\* holds at most maxPages pages.
C1_AtMostMaxPages == Len(pages) <= maxPages

\* the budget stopped a run that still had URLs to visit
C1_Witness ==
    pc = "done" /\ maxPages >= 2 /\ Len(pages) = maxPages /\ Len(toVisit) > 0

\* C2: no two entries of the page list have the same url, also when the url
\* of a fetched page is the corrected URL of a redirect.
C2_NoUrlTwice == NoDuplicates(PageUrls)

C4_FrontierFresh ==
    /\ NoDuplicates(toVisit)
    /\ Range(toVisit) \cap visited = {}
    /\ \A u \in DOMAIN enqueued : enqueued[u] <= 1

\* C5: when the sitemap seeds nothing, the pages are appended in
\* non-decreasing link depth of the URLs they were fetched from; depthOf is
\* the length of the shortest link path, as no extracted link shortens it.
C5_DepthOrder ==
    /\ ~shortcut
    /\ \A i, j \in 1..Len(fetchedFrom) :
          i < j => depthOf[fetchedFrom[i]] <= depthOf[fetchedFrom[j]]

\* four pages at three different depths were crawled
C5_Witness ==
    /\ pc = "done"
    /\ Len(pages) = 4
    /\ depthOf[fetchedFrom[4]] = 3
    /\ lastStep = "added"

\* C6: a homepage-only run requests no sitemap, extracts no links, fetches
\* the seed URL only and returns at most one page; none when the seed fetch
\* fails or the seed is a 404 page or an excluded file.
C6_HomepageOnly ==
    homepageOnly =>
        /\ pc # "sitemap" /\ smRequests = <<>>
        /\ extractCalls = 0
        /\ DOMAIN requests \subseteq {baseUrl}
        /\ DOMAIN enqueued = {baseUrl}
        /\ Len(pages) <= 1
        /\ lastStep \in {"failed", "404", "excluded", "threw"} => Len(pages) = 0

\* a homepage-only run with a budget of several pages returned the seed alone
C6_Witness ==
    homepageOnly /\ pc = "done" /\ maxPages >= 2 /\ Len(pages) = 1

(***************************************************************************)
(* Properties of an auditPages run                                         *)
(***************************************************************************)
\* the audit of one URL fails: an error response, no response, a request that
\* could not be set up, a status other than 200, or an unreadable payload
Failed(response) ==
    \/ response.kind # "resolved"
    \/ response.status # 200
    \/ response.data = Null

ZeroSummary ==
    [totalIssues |-> 0, errors |-> 0, warnings |-> 0, hints |-> 0,
     pagesWithIssues |-> 0, criticalIssues |-> 0, seriousIssues |-> 0,
     moderateIssues |-> 0]

\* C7: the results follow the input list one to one: the i-th result carries
\* urls[i], and the returned list is as long as urls, whatever succeeded.
C7_OneResultPerUrl ==
    /\ Len(results) <= Len(urls)
    /\ \A i \in 1..Len(results) : results[i].url = urls[i]
    /\ apc = "done" => Len(results) = Len(urls)

\* three URLs, one of them twice, were audited with failures and a success
C7_Witness ==
    /\ apc = "done"
    /\ Len(urls) = 3 /\ urls[1] = urls[3]
    /\ Failed(responses[1]) /\ ~Failed(responses[2]) /\ Failed(responses[3])

\* C8: a failed audit leaves a result with error set, every summary counter 0
\* and empty issue lists, and the run goes on to the remaining URLs; the
\* result of a successful response has no error field.
C8_FailureIsolated ==
    /\ \A i \in 1..Len(responses) :
          /\ i <= Len(results)
          /\ IF Failed(responses[i])
               THEN /\ "error" \in DOMAIN results[i]
                    /\ results[i].error # <<>>
                    /\ results[i].summary = ZeroSummary
                    /\ results[i].issues = [errors |-> <<>>, warnings |-> <<>>, hints |-> <<>>]
               ELSE "error" \notin DOMAIN results[i]
    /\ apc = "done" => submitted = urls /\ Len(responses) = Len(urls)

\* an unreadable payload for the first URL, then a successful audit
C8_Witness ==
    /\ apc = "done"
    /\ Len(urls) >= 2
    /\ responses[1].kind = "resolved" /\ responses[1].status = 200
    /\ responses[1].data = Null
    /\ ~Failed(responses[2]) /\ results[2].summary.totalIssues > 0

\* C9: one request at a time, in the order of urls; the request for the next
\* URL is posted after the previous one settled and one delay elapsed; a run
\* over n URLs makes max(0, n-1) delays and none after the last URL.
C9_Sequential ==
    /\ submitted = SubSeq(urls, 1, Len(submitted))
    /\ apc = "request" => /\ Len(submitted) = idx - 1 /\ Len(responses) = idx - 1
                          /\ auditDelays = idx - 1
    /\ apc = "response" => /\ Len(submitted) = idx /\ Len(responses) = idx - 1
                           /\ auditDelays = idx - 1
    /\ apc = "delay" => /\ Len(submitted) = idx /\ Len(responses) = idx
                        /\ auditDelays = idx - 1 /\ idx < Len(urls)
    /\ apc = "done" => /\ Len(submitted) = Len(urls) /\ Len(responses) = Len(urls)
                       /\ auditDelays = IF Len(urls) = 0 THEN 0 ELSE Len(urls) - 1

\* three URLs, the last of which failed, took two delays
C9_Witness ==
    /\ apc = "done"
    /\ Len(urls) = 3 /\ auditDelays = 2
    /\ Failed(responses[3]) /\ Failed(responses[1])

\* the API refused the credentials
AuthFailure(response) ==
    response.kind = "errorResponse" /\ response.status \in {401, 403}

\* another failure of the API or of the network
OtherFailure(response) ==
    \/ response.kind = "errorResponse" /\ response.status \notin {401, 403}
    \/ response.kind = "resolved" /\ response.status # 200
    \/ response.kind = "noResponse"

\* C20: a 401 or 403 of the API is recorded as the error of its URL, the run
\* goes on, and the error recorded differs from the one recorded for any
\* other API error and for a network error.
C20_AuthErrorDistinct ==
    /\ \A i \in 1..Len(responses) :
          AuthFailure(responses[i]) => i <= Len(results) /\ "error" \in DOMAIN results[i]
    /\ apc = "done" => Len(responses) = Len(urls)
    /\ \A i, j \in 1..Len(responses) :
          AuthFailure(responses[i]) /\ OtherFailure(responses[j])
             => results[i].error # results[j].error

(***************************************************************************)
(* Properties of the issue classifier                                      *)
(***************************************************************************)
\* the spellings of the four excluded words among the payloads
ExcludedSpellings ==
    {T_passed, T_incomplete, T_inapplicable, T_na, T_NA, T_Incomplete}

AllIssues == classified.errors \o classified.warnings \o classified.hints

InputItems == data.violations \o data.incomplete \o data.passes

\* no issue derives from an item whose status is an excluded word
NoIssueFromExcluded ==
    \A i \in 1..Len(InputItems) :
       Text(InputItems[i], "status") \in ExcludedSpellings =>
          \A k \in 1..Len(AllIssues) : AllIssues[k].id # InputItems[i].id

WithStatus(items, word) == {i \in 1..Len(items) : Text(items[i], "status") = word}

\* three violations, two with status failed and one with status passed
TwoFailedOnePassed ==
    /\ Len(data.violations) = 3
    /\ Cardinality(WithStatus(data.violations, T_failed)) = 2
    /\ Cardinality(WithStatus(data.violations, T_passed)) = 1

\* the nodes of the failed findings whose type is not an excluded word
RECURSIVE NodesOfFailed(_)
NodesOfFailed(items) ==
    IF items = <<>> THEN 0
    ELSE (IF /\ Text(Head(items), "status") = T_failed
             /\ Text(Head(items), "type") \notin ExcludedSpellings
            THEN Len(Head(items).nodes) ELSE 0) + NodesOfFailed(Tail(items))

\* C10 as stated: no issue derives from an item with an excluded status, and
\* three violations, two failed and one passed, give exactly 2 errors.
C10_AsStated ==
    cpc = "done" =>
       /\ NoIssueFromExcluded
       /\ TwoFailedOnePassed => Len(classified.errors) = 2

\* C10: no issue derives from an item whose status is passed, incomplete,
\* inapplicable or na in any letter case; three violations, two failed and
\* one passed, give one error per node of each failed violation whose type
\* is not an excluded word: exactly 2 when both have one node and no such type.
C10_ExcludedStatuses ==
    cpc = "done" =>
       /\ NoIssueFromExcluded
       /\ TwoFailedOnePassed =>
             /\ Len(classified.errors) = NodesOfFailed(data.violations)
             /\ (\A i \in WithStatus(data.violations, T_failed) :
                    /\ Len(data.violations[i].nodes) = 1
                    /\ Text(data.violations[i], "type") = <<>>)
                => Len(classified.errors) = 2

\* two failed violations of one node each and a passed one with a node gave
\* two errors, both from the failed ones
C10_Witness ==
    /\ cpc = "done"
    /\ TwoFailedOnePassed
    /\ \A i \in 1..3 : Len(data.violations[i].nodes) = 1
    /\ Len(classified.errors) = 2
    /\ \A k \in 1..2 : \E i \in WithStatus(data.violations, T_failed) :
          classified.errors[k].id = data.violations[i].id

\* the node counts of the findings of a list, summed
RECURSIVE NodeTotal(_)
NodeTotal(items) ==
    IF items = <<>> THEN 0 ELSE Len(Head(items).nodes) + NodeTotal(Tail(items))

\* lane holds, finding by finding and node by node, the issues of survivors
LaneExpands(survivors, lane, level) ==
    /\ Len(lane) = NodeTotal(survivors)
    /\ \A i \in 1..Len(survivors) :
          LET before == NodeTotal(SubSeq(survivors, 1, i - 1))
              first == lane[before + 1]
          IN  \A k \in 1..Len(survivors[i].nodes) :
                 LET issue == lane[before + k]
                 IN  /\ issue.id = survivors[i].id
                     /\ issue.level = level
                     /\ issue.title = first.title
                     /\ issue.category = first.category
                     /\ issue.impact = first.impact
                     /\ "impact" \in DOMAIN survivors[i] => issue.impact = survivors[i].impact
                     /\ issue.selector = survivors[i].nodes[k].target

\* C11: a finding that survives the filter with n >= 1 nodes gives n issues,
\* one per node in node order, with the finding's id, title, category, level
\* and impact and the node's selector; a lane is as long as the node counts
\* of its surviving findings, summed.
C11_OneIssuePerNode ==
    cpc = "done" =>
       /\ LaneExpands(Filter(data.violations), classified.errors, "error")
       /\ LaneExpands(Filter(data.incomplete), classified.warnings, "warning")

\* a violation with three nodes gave three errors with three selectors
C11_Witness ==
    /\ cpc = "done"
    /\ Len(data.violations) >= 2
    /\ KeepItem(data.violations[1]) /\ Len(data.violations[1].nodes) = 3
    /\ KeepItem(data.violations[2])
    /\ Len(classified.errors) >= 4
    /\ Cardinality({classified.errors[k].selector : k \in 1..3}) = 3
    /\ \A k \in 1..3 : classified.errors[k].id = data.violations[1].id

\* the issues that carry the id of the finding
IssuesOf(item) == {k \in 1..Len(AllIssues) : AllIssues[k].id = item.id}

RawFindings == data.violations \o data.incomplete

\* C12: a finding without nodes whose status and type are not excluded gives
\* exactly one issue, with empty selector, html and failureSummary.
C12_ZeroNodeFinding ==
    cpc = "done" =>
       \A i \in 1..Len(RawFindings) :
          LET item == RawFindings[i]
          IN  (/\ Len(item.nodes) = 0
               /\ Text(item, "status") \notin ExcludedSpellings
               /\ Text(item, "type") \notin ExcludedSpellings)
              => /\ Cardinality(IssuesOf(item)) = 1
                 /\ \A k \in IssuesOf(item) :
                       /\ AllIssues[k].selector = <<>>
                       /\ AllIssues[k].html = ""
                       /\ AllIssues[k].failureSummary = ""

\* the passes entries of the payload of a response
PassesOf(response) ==
    LET d == response.data
    IN  Text(IF "results" \in DOMAIN d THEN d.results ELSE d, "passes")

\* C13: no result of auditPages has a hint: the hints lane is empty,
\* summary.hints is 0, and no issue of any lane carries the id of a passes
\* entry of the payload.
C13_PassesDiscarded ==
    \A i \in 1..Len(results) :
       /\ results[i].issues.hints = <<>>
       /\ results[i].summary.hints = 0
       /\ ~Failed(responses[i]) =>
             \A p \in 1..Len(PassesOf(responses[i])) :
                \A k \in 1..Len(results[i].issues.errors \o results[i].issues.warnings) :
                   (results[i].issues.errors \o results[i].issues.warnings)[k].id
                      # PassesOf(responses[i])[p].id

\* a payload with a passes entry was audited and gave issues, none a hint
C13_Witness ==
    /\ apc = "done"
    /\ \E i \in 1..Len(results) :
          /\ ~Failed(responses[i])
          /\ Len(PassesOf(responses[i])) > 0
          /\ results[i].summary.totalIssues > 0

(***************************************************************************)
(* Properties of normalizeUrl                                              *)
(***************************************************************************)
\* C19: normalizeUrl is idempotent: applied to its own result it returns
\* that result.
C19_Idempotent ==
    \A i \in 1..Len(normalized) : i > 1 => normalized[i] = normalized[i - 1]

(***************************************************************************)
(* Properties of the report service                                        *)
(***************************************************************************)
Summarized == rpc \in {"summarized", "done"}

\* C14: the summary of the empty list has totalPages, pagesWithIssues,
\* totalIssues, errors, warnings and hints 0, no category and no top issue.
C14_EmptySummary ==
    Summarized /\ reportResults = <<>> =>
       summary = [totalPages |-> 0, pagesWithIssues |-> 0, totalIssues |-> 0,
                  errors |-> 0, warnings |-> 0, hints |-> 0,
                  categories |-> <<>>, topIssues |-> <<>>]

\* the report of the empty list was generated
C14_Witness ==
    rpc = "done" /\ reportResults = <<>> /\ summary.totalPages = 0 /\ Len(csvRows) = 1

\* the issues of the results without error: <<r, k>> is the k-th issue of
\* the r-th result
PagedIssues ==
    {<<r, k>> \in (1..Len(reportResults)) \X (1..(2 * TopN + 2)) :
        ~HasError(reportResults[r]) /\ k <= Len(FlatIssues(reportResults[r]))}

IssueAt(p) == FlatIssues(reportResults[p[1]])[p[2]]

IdLevelPairs == {<<IssueAt(p).id, IssueAt(p).level>> : p \in PagedIssues}

Min(a, b) == IF a < b THEN a ELSE b

\* C15: topIssues has one entry for each (id, level) pair among the issues
\* of the results without error, at most 10 of them, in non-increasing order
\* of count; count is the number of those issues over all pages, pages the
\* distinct URLs of their pages and pageCount the number of these URLs.
C15_TopIssues ==
    Summarized =>
       LET top == summary.topIssues
       IN  /\ Len(top) = Min(Cardinality(IdLevelPairs), TopN)
           /\ \A a, b \in 1..Len(top) :
                 /\ a < b => top[a].count >= top[b].count
                 /\ a # b => <<top[a].id, top[a].level>> # <<top[b].id, top[b].level>>
           /\ \A a \in 1..Len(top) :
                 LET of == {p \in PagedIssues : /\ IssueAt(p).id = top[a].id
                                                /\ IssueAt(p).level = top[a].level}
                 IN  /\ top[a].count = Cardinality(of)
                     /\ top[a].count > 0
                     /\ Range(top[a].pages) = {reportResults[p[1]].url : p \in of}
                     /\ NoDuplicates(top[a].pages)
                     /\ top[a].pageCount = Len(top[a].pages)

\* the percentages of the category summary, summed
PercentageSum ==
    SumOver([c \in DOMAIN categorySummary |-> categorySummary[c].percentage],
            DOMAIN categorySummary)

Distance(a, b) == IF a < b THEN b - a ELSE a - b

\* C16 as stated: with at least one issue the percentages of the categories
\* sum to 99, 100 or 101, whatever the number of categories.
C16_AsStated ==
    kpc = "done" /\ DOMAIN categoryCounts # {} => PercentageSum \in 99..101

\* C16: with at least one issue the percentages of k categories sum to a
\* value at most k/2 away from 100, so to 99, 100 or 101 for up to three
\* categories.
C16_PercentagesSum ==
    kpc = "done" /\ DOMAIN categoryCounts # {} =>
       /\ 2 * Distance(PercentageSum, 100) <= Cardinality(DOMAIN categoryCounts)
       /\ Cardinality(DOMAIN categoryCounts) <= 3 => PercentageSum \in 99..101

\* four categories whose percentages sum to more than 101
C16_Witness ==
    /\ kpc = "done"
    /\ Cardinality(DOMAIN categoryCounts) = 4
    /\ PercentageSum = 102

\* C17: the CSV report is the header row followed by one row per result in
\* the order of the input; the row of a result with error has ERROR in the
\* three severity columns and 0 as its score.
C17_CsvRows ==
    rpc = "done" =>
       /\ Len(csvRows) = Len(reportResults) + 1
       /\ csvRows[1] = <<"Page URL", "Critical Issues", "Serious Issues",
                         "Moderate Issues", "Total Score">>
       /\ \A i \in 1..Len(reportResults) :
             /\ Len(csvRows[i + 1]) = 5
             /\ csvRows[i + 1][1].value = reportResults[i].url
             /\ HasError(reportResults[i]) =>
                   /\ \A col \in 2..4 : csvRows[i + 1][col] = "ERROR"
                   /\ csvRows[i + 1][5] = "0"

\* three results of two pages, the second with an error, gave four rows
C17_Witness ==
    /\ rpc = "done"
    /\ Len(reportResults) = 3 /\ Len(csvRows) = 4
    /\ ~HasError(reportResults[1]) /\ HasError(reportResults[2])
    /\ ~HasError(reportResults[3])
    /\ reportResults[1].url # reportResults[3].url
    /\ csvRows[3][2] = "ERROR" /\ csvRows[2][2] # "ERROR"

\* the results without error, in their order
WithoutErrors == SelectSeq(reportResults, LAMBDA r : ~HasError(r))

\* C18: a result with error counts in totalPages and in nothing else: the
\* other fields of the summary are those of the summary of the list without
\* the results with error.
C18_ErrorResultsSkipped ==
    Summarized =>
       /\ summary.totalPages = Len(reportResults)
       /\ [summary EXCEPT !.totalPages = Len(WithoutErrors)] = generateSummary(WithoutErrors)

\* a result with error, a summary and issues was summarized next to a page
\* with issues
C18_Witness ==
    /\ rpc = "done"
    /\ \E i, j \in 1..Len(reportResults) :
          /\ HasError(reportResults[i]) /\ reportResults[i].summary.totalIssues > 0
          /\ Len(reportResults[i].issues.errors) > 0
          /\ ~HasError(reportResults[j]) /\ reportResults[j].summary.totalIssues > 0
    /\ summary.totalPages > Len(WithoutErrors)

(***************************************************************************)
(* Claims about the crawl loop: failures, discarded pages, delays          *)
(***************************************************************************)
\* the number of fetchPage calls of the run
Fetches == SumOver(requests, DOMAIN requests)

\* C23: a fetch that returns null does not end the run: the iteration adds no
\* page, extracts no links, pushes nothing, records no crawl error, and the run
\* is back at the loop head (after the delay when URLs are waiting), where the
\* next URL dequeued is the head of the frontier.
C23_FailedFetchIsolated ==
    [][/\ (pc = "fetch" /\ lastFetch'.outcome = "fail") =>
              /\ lastStep' = "failed"
              /\ pages' = pages /\ fetchedFrom' = fetchedFrom
              /\ extractCalls' = extractCalls
              /\ toVisit' = toVisit /\ enqueued' = enqueued
              /\ failedUrls' = failedUrls
              /\ pc' = (IF toVisit # <<>> THEN "delay" ELSE "loop")
       /\ (lastStep = "failed" /\ pc = "loop" /\ toVisit # <<>> /\ Len(pages) < maxPages) =>
              /\ pc' # "done"
              /\ currentUrl' = Head(toVisit)
      ]_vars

\* a fetch failed after a page had been added, and a page was added after it
C23_Witness ==
    /\ lastStep = "added"
    /\ Len(pages) = 2
    /\ Fetches = 3
    /\ \E u \in DOMAIN requests :
          /\ u \notin Range(fetchedFrom)
          /\ ~isExcludedFile(u) /\ u.path \notin ErrorPaths

\* C24: no page of the results is a 404 page or was fetched from an excluded
\* file, links are extracted from added pages only, and the results stay within
\* maxPages however many fetches the run makes.
C24_DiscardedPages ==
    /\ \A i \in 1..Len(pages) :
          /\ ~pages[i].notFound
          /\ fetchedFrom[i].path \notin ErrorPaths
          /\ ~(fetchedFrom[i].path \in ExcludedFilePaths /\ fetchedFrom[i].ts = 0)
    /\ lastStep \in {"404", "excluded"} => currentUrl \notin Range(fetchedFrom)
    /\ extractCalls <= Len(pages)
    /\ Len(pages) <= maxPages

\* a run has fetched more URLs than maxPages, the last one discarded
C24_Witness ==
    /\ lastStep \in {"404", "excluded"}
    /\ Fetches > maxPages
    /\ Len(pages) = maxPages - 1

\* C25: every fetch but the first of a run is preceded by a politeness delay
\* that elapsed after the previous fetch, and a delay starts only while the
\* frontier is non-empty.
C25_DelayBetweenFetches ==
    [][/\ (pc = "loop" /\ pc' = "fetch" /\ requests # <<>>) => delayed
       /\ pc' = "delay" => toVisit' # <<>>
      ]_vars

\* C26: the first fetchPage call of a run is for the normalized seed URL, and
\* no run returns without a fetch.
C26_SeedFetchedFirst ==
    /\ requests # <<>> => baseUrl \in DOMAIN requests
    /\ Fetches = 1 => requests = (baseUrl :> 1)
    /\ pc = "done" => Fetches >= 1

\* a run seeded by the sitemap has returned after fetching several URLs
C26_Witness ==
    /\ pc = "done"
    /\ ~homepageOnly
    /\ Cardinality(DOMAIN enqueued) >= 2
    /\ Fetches >= 2

(***************************************************************************)
(* Claims about getSitemapUrls and fetchPage                               *)
(***************************************************************************)
FallbackOrder ==
    <<"/sitemap.xml", "/sitemap_index.xml", "/sitemap/", "/sitemaps/", "/sitemap/sitemap.xml">>

\* C27: getSitemapUrls asks sitemap.xml first and the alternatives only when
\* that request failed, in the order sitemap_index.xml, /sitemap/, /sitemaps/,
\* /sitemap/sitemap.xml; it goes on only while nothing was found, returns at the
\* first alternative that yields a valid URL, and returns the empty list when no
\* location answered. Every request ends in a further request or in the return.
C27_SitemapFallbacks ==
    LET k == Len(smRequests)
    IN  /\ smRequests = SubSeq(FallbackOrder, 1, k)
        /\ Len(smAnswered) = k
        /\ pc = "sitemap" =>
              /\ smIdx = k /\ k < Len(FallbackOrder)
              /\ smUrls = <<>>
              /\ k > 0 => ~smAnswered[1]
        /\ (pc = "loop" /\ k > 0) =>
              /\ smAnswered[1] <=> k = 1
              /\ (\A i \in 1..k : ~smAnswered[i]) =>
                     smReturned = <<>> /\ k = Len(FallbackOrder)
              /\ (1 < k /\ k < Len(FallbackOrder)) => smAnswered[k] /\ smReturned # <<>>
        /\ pc \in {"sitemap", "loop", "fetch", "delay", "done"}

\* the call returned the URLs of /sitemap/ after sitemap.xml and
\* sitemap_index.xml had failed
C27_Witness ==
    /\ pc = "loop"
    /\ smRequests = SubSeq(FallbackOrder, 1, 3)
    /\ smAnswered = <<FALSE, FALSE, TRUE>>
    /\ smReturned # <<>>

C22_Terminates ==
    /\ <>(pc = "done")
    /\ [](pc = "done" => (Len(pages) >= maxPages \/ Len(toVisit) = 0))
    /\ [][(pc = "loop" /\ (Len(pages) >= maxPages \/ Len(toVisit) = 0)) => pc' = "done"]_vars
    /\ [][(pc = "loop" /\ pc' = "done") => (Len(pages) >= maxPages \/ Len(toVisit) = 0)]_vars

\* a run returned on its budget with URLs left in the frontier
C22_Witness ==
    /\ pc = "done"
    /\ Len(pages) = maxPages
    /\ Len(toVisit) > 0
    /\ Fetches > maxPages

(***************************************************************************)
(* Claims about the lanes and the category of the issues                   *)
(***************************************************************************)
IdsOf(list) == {list[k].id : k \in 1..Len(list)}

\* C29: the issues of the errors lane have level error and the id of an entry
\* of violations, those of the warnings lane have level warning and the id of
\* an entry of incomplete, and no entry has issues in two lanes.
C29_LanesBySourceList ==
    cpc = "done" =>
       /\ \A k \in 1..Len(classified.errors) :
             /\ classified.errors[k].level = "error"
             /\ classified.errors[k].id \in IdsOf(data.violations)
       /\ \A k \in 1..Len(classified.warnings) :
             /\ classified.warnings[k].level = "warning"
             /\ classified.warnings[k].id \in IdsOf(data.incomplete)
       /\ IdsOf(classified.errors) \cap IdsOf(classified.warnings) = {}
       /\ IdsOf(classified.errors) \cap IdsOf(classified.hints) = {}
       /\ IdsOf(classified.warnings) \cap IdsOf(classified.hints) = {}

\* a payload gave issues in both lanes
C29_Witness ==
    /\ cpc = "done"
    /\ Len(classified.errors) >= 2
    /\ Len(classified.warnings) >= 1
    /\ Cardinality(IdsOf(classified.errors)) >= 2

\* the tags of a finding that carry the cat. prefix
CatTags(item) == SelectSeq(Text(item, "tags"), LAMBDA t : t # <<>> /\ Head(t) = "cat.")

\* the category as stated: the category field, else the first cat. tag without
\* its prefix, else other
StatedCategory(item) ==
    IF Text(item, "category") # <<>> THEN Text(item, "category")
    ELSE IF CatTags(item) # <<>> THEN Tail(CatTags(item)[1])
    ELSE <<"other">>

\* C30: every issue has the category of its finding: the category field, else
\* the first tag with a cat. prefix, the prefix removed, else other.
C30_CategoryFromCatTag ==
    cpc = "done" =>
       \A i \in 1..Len(RawFindings) :
          \A k \in IssuesOf(RawFindings[i]) :
             AllIssues[k].category = StatedCategory(RawFindings[i])

(***************************************************************************)
(* The server: POST /api/crawl and POST /api/audit                         *)
(*                                                                         *)
(* A maxPages value of a request body is modelled by the text parseInt     *)
(* reads, String(maxPages): digits says whether the text starts with       *)
(* digits, lead is the integer they spell, rest is what follows them.      *)
(*   7       -> digits, lead 7, rest ""                                    *)
(*   500.5   -> digits, lead 500, rest ".5"                                *)
(*   1e21    -> digits, lead 1, rest "e+21"       (String(1e21) = "1e+21") *)
(*   'abc'   -> no digits, rest "abc"                                      *)
(***************************************************************************)
MaxRequests == 2

Number(n) == [given |-> TRUE, digits |-> TRUE, lead |-> n, rest |-> ""]

NotGiven == [given |-> FALSE, digits |-> FALSE, lead |-> 0, rest |-> ""]

MaxPagesValues ==
    {NotGiven, Number(0), Number(1), Number(2), Number(500), Number(501),
     [given |-> TRUE, digits |-> TRUE, lead |-> 500, rest |-> ".5"],
     [given |-> TRUE, digits |-> TRUE, lead |-> 1, rest |-> "e+21"],
     [given |-> TRUE, digits |-> FALSE, lead |-> 0, rest |-> "abc"]}

\* line 103: the default of the destructuring
DefaultMaxPages == 100

\* line 110: parseInt(maxPages, 10); <<>> is NaN
parseInt(v) == IF v.digits THEN <<v.lead>> ELSE <<>>

\* line 111
InvalidMaxPages(n) == n = <<>> \/ n[1] < 1 \/ n[1] > 500

CrawlBodies ==
    {[route |-> "crawl", mainUrl |-> u, maxPages |-> m] :
        u \in {NoUrl, Root}, m \in MaxPagesValues}

\* pages: <<>> stands for a missing pages field and for an empty array alike
AuditBodies ==
    {[route |-> "audit", pages |-> p, customUrls |-> c] :
        p \in {<<>>, <<PageA>>, <<PageA, PageB>>}, c \in {<<>>, <<PageB>>}}

BadRequest(message) == [status |-> 400, error |-> message]

\* crawlerService.crawlWebsite(mainUrl, maxPages) is called: lines 35-47
StartRun(seed, limit) ==
    /\ mainUrl' = seed
    /\ maxPages' = limit
    /\ homepageOnly' = FALSE
    /\ baseUrl' = normalizeUrl(seed)
    /\ visited' = {}
    /\ toVisit' = <<normalizeUrl(seed)>>
    /\ pages' = <<>>
    /\ failedUrls' = <<>>
    /\ currentUrl' = NoUrl
    /\ smIdx' = 0
    /\ smUrls' = <<>>
    /\ pc' = "sitemap"
    /\ requests' = <<>>
    /\ smRequests' = <<>>
    /\ fetchedFrom' = <<>>
    /\ enqueued' = (normalizeUrl(seed) :> 1)
    /\ depthOf' = (normalizeUrl(seed) :> 0)
    /\ shortcut' = FALSE
    /\ extractCalls' = 0
    /\ lastStep' = "none"
    /\ delayed' = FALSE
    /\ smAnswered' = <<>>
    /\ smReturned' = <<>>
    /\ lastFetch' = NoFetch

\* crawlWebsite has returned: its locals are gone
EndRun ==
    /\ pc' = "idle" /\ mainUrl' = NoUrl /\ maxPages' = 1 /\ homepageOnly' = FALSE
    /\ baseUrl' = NoUrl /\ visited' = {} /\ toVisit' = <<>> /\ pages' = <<>>
    /\ failedUrls' = <<>> /\ currentUrl' = NoUrl /\ smIdx' = 0 /\ smUrls' = <<>>
    /\ requests' = <<>> /\ smRequests' = <<>> /\ fetchedFrom' = <<>> /\ enqueued' = <<>>
    /\ depthOf' = <<>> /\ shortcut' = FALSE /\ extractCalls' = 0 /\ lastStep' = "none"
    /\ delayed' = FALSE /\ smAnswered' = <<>> /\ smReturned' = <<>>
    /\ lastFetch' = NoFetch

\* auditPages has returned: its locals are gone
EndAudit ==
    /\ apc' = "idle" /\ urls' = <<>> /\ idx' = 1 /\ results' = <<>>
    /\ submitted' = <<>> /\ responses' = <<>> /\ auditDelays' = 0

\* POST /api/crawl, lines 101-117: the validation, then the call of crawlWebsite
PostCrawl(b) ==
    /\ hpc = "ready"
    /\ served < MaxRequests
    /\ body' = b
    /\ LET given == IF b.maxPages.given THEN b.maxPages ELSE Number(DefaultMaxPages)
           n == parseInt(given)
       IN  IF b.mainUrl = NoUrl
             THEN /\ reply' = BadRequest("Main URL is required")
                  /\ served' = served + 1
                  /\ UNCHANGED <<hpc, crawlVars>>
             ELSE IF InvalidMaxPages(n)
             THEN /\ reply' = BadRequest("maxPages must be a number between 1 and 500")
                  /\ served' = served + 1
                  /\ UNCHANGED <<hpc, crawlVars>>
             ELSE /\ StartRun(b.mainUrl, n[1])
                  /\ hpc' = "crawl"
                  /\ UNCHANGED <<reply, served>>
    /\ UNCHANGED <<auditHistory, handlers, now, auditVars, classifyVars, reportVars,
                   normalizeVars>>

\* lines 117-125: crawlWebsite returned, the pages are sent
CrawlRespond ==
    /\ hpc = "crawl"
    /\ pc = "done"
    /\ reply' = [status |-> 200, pages |-> [i \in 1..Len(pages) |-> pages[i].url]]
    /\ hpc' = "ready"
    /\ EndRun
    /\ served' = served + 1
    /\ UNCHANGED <<body, auditHistory, handlers, now, auditVars, classifyVars, reportVars,
                   normalizeVars>>

\* POST /api/audit, lines 227-236: the validation, then the call of auditPages
PostAudit(b) ==
    /\ hpc = "ready"
    /\ served < MaxRequests
    /\ body' = b
    /\ IF Len(b.pages) = 0
         THEN /\ reply' = BadRequest("At least one page must be selected")
              /\ served' = served + 1
              /\ UNCHANGED <<hpc, auditVars>>
         ELSE /\ urls' = b.pages \o b.customUrls
              /\ idx' = 1
              /\ results' = <<>>
              /\ apc' = "request"
              /\ submitted' = <<>>
              /\ responses' = <<>>
              /\ auditDelays' = 0
              /\ hpc' = "audit"
              /\ UNCHANGED <<reply, served>>
    /\ UNCHANGED <<auditHistory, handlers, now, crawlVars, classifyVars, reportVars,
                   normalizeVars>>

\* lines 237-259: auditPages returned; the summary is made, the audit is
\* stored and the results are sent. Of auditData the id and the timestamp,
\* which are read from the clock, are left out.
AuditRespond ==
    /\ hpc = "audit"
    /\ apc = "done"
    /\ auditHistory' = Append(auditHistory,
                              [summary |-> generateSummary(results),
                               results |-> results,
                               pages |-> urls])
    /\ reply' = [status |-> 200, results |-> results]
    /\ hpc' = "ready"
    /\ EndAudit
    /\ served' = served + 1
    /\ UNCHANGED <<body, handlers, now, crawlVars, classifyVars, reportVars, normalizeVars>>

\* what the crawled site and the audit API answer in the runs of the server
ServerHtmlChoices == {<<>>, <<PageA>>}

ServerResponses ==
    {[kind |-> "resolved", status |-> 200, data |-> IssuesPayload],
     [kind |-> "noResponse"]}

InitServer ==
    /\ hpc = "ready" /\ body = NoBody /\ reply = NoReply /\ auditHistory = <<>>
    /\ served = 0 /\ handlers = NoHandlers /\ now = 0
    /\ CrawlIdle /\ AuditIdle /\ ClassifyIdle /\ ReportIdle /\ NormalizeIdle

NextServer ==
    \/ \E b \in CrawlBodies : PostCrawl(b)
    \/ \E ok \in BOOLEAN, locs \in ServerHtmlChoices : SitemapRequest(ok, locs)
    \/ LoopExit
    \/ Dequeue
    \/ FetchReturns(ServerHtmlChoices)
    \/ Delay
    \/ CrawlRespond
    \/ \E b \in AuditBodies : PostAudit(b)
    \/ Submit
    \/ \E response \in ServerResponses : Respond(response)
    \/ AuditDelay
    \/ AuditRespond

SpecServer == InitServer /\ [][NextServer]_vars

(***************************************************************************)
(* Claims about the validation of the requests                             *)
(***************************************************************************)
\* the number a maxPages value denotes lies outside 1..500, or it is no number
OutsideRange(v) ==
    v.given /\ CASE ~v.digits -> TRUE
                 [] v.rest = "" -> v.lead \notin 1..500
                 [] v.rest = ".5" -> v.lead < 1 \/ v.lead >= 500
                 [] v.rest = "e+21" -> v.lead >= 1
                 [] OTHER -> TRUE

\* a request as the validation is stated to reject it
InvalidRequest(b) ==
    CASE b.route = "crawl" -> b.mainUrl = NoUrl \/ OutsideRange(b.maxPages)
      [] b.route = "audit" -> Len(b.pages) = 0
      [] OTHER -> FALSE

\* C21: a crawl request without URL or with maxPages outside 1..500, and an
\* audit request without pages, is answered with an error while no crawl and no
\* audit is started: no fetchPage call, no sitemap request, no API submission,
\* and the audit history as it was.
C21_RejectedBeforeIO ==
    [][(hpc = "ready" /\ InvalidRequest(body')) =>
           /\ reply'.status = 400
           /\ hpc' = "ready" /\ pc' = "idle" /\ apc' = "idle"
           /\ UNCHANGED <<requests, smRequests, submitted, auditHistory>>
      ]_vars

(***************************************************************************)
(* The CSV report on pages with every impact and on a page with more than  *)
(* a hundred issues                                                        *)
(***************************************************************************)
\* the nodes of the rule that fails all over a page
FloodNodes == 101

\* findings of every impact the API reports and of two it does not, in both
\* lanes
PayloadImpacts ==
    [violations |-> << Finding("c", 1, [status |-> T_failed, impact |-> "critical"], 1),
                       Finding("c", 2, [status |-> T_failed, impact |-> "minor"], 2),
                       Finding("c", 3, [status |-> T_failed, impact |-> "passed"], 1),
                       Finding("c", 4, [status |-> T_failed, impact |-> "unknown"], 1),
                       Finding("c", 5, [status |-> T_failed, impact |-> "moderate"], 1) >>,
     incomplete |-> << Finding("d", 1, [impact |-> "minor"], 1),
                       Finding("d", 2, [impact |-> "serious"], 1),
                       Finding("d", 3, [impact |-> "unknown"], 2),
                       Finding("d", 4, [impact |-> "critical"], 1) >>,
     passes |-> <<>>]

PayloadFlood ==
    [violations |-> << Finding("f", 1, [status |-> T_failed], FloodNodes) >>,
     incomplete |-> << Finding("g", 1, [impact |-> "passed"], 1) >>,
     passes |-> <<>>]

CsvKinds == {"error", "clean", "twice", "impacts", "flood"}

CsvResult(kind, url) ==
    CASE kind = "impacts" -> processAuditData(url, PayloadImpacts).value
      [] kind = "flood" -> processAuditData(url, PayloadFlood).value
      [] OTHER -> SampleResult(kind, url)

InitCsv ==
    /\ \E k \in 0..MaxResults :
          \E f \in [1..k -> CsvKinds] :
             reportResults = [i \in 1..k |-> CsvResult(f[i], IF i = 2 THEN PageQ ELSE PageA)]
    /\ rpc = "ready"
    /\ summary = <<>>
    /\ csvRows = <<>>
    /\ jsonReport = <<>>
    /\ kpc = "idle" /\ categoryCounts = <<>> /\ categorySummary = <<>>
    /\ CrawlIdle /\ AuditIdle /\ ClassifyIdle /\ NormalizeIdle /\ ServerOff

NextCsv == GenerateSummary \/ GenerateCsv

SpecCsv == InitCsv /\ [][NextCsv]_vars

\* the issues of a page whose impact and level satisfy a test
CountWhere(issues, Test(_)) == Cardinality({n \in 1..Len(issues) : Test(issues[n])})

NamedImpacts == {"critical", "serious", "moderate"}

\* C38: in the CSV row of a page without error every issue of the page is
\* counted in exactly one of the columns critical, serious and moderate, an
\* issue of any other impact (minor, passed, unknown) in serious when its
\* level is error and in moderate otherwise; the three columns sum to the
\* number of issues of the page, and the score is max(0, 100 - that number),
\* between 0 and 100.
C38_SeverityColumns ==
    rpc = "done" =>
       \A i \in 1..Len(reportResults) :
          ~HasError(reportResults[i]) =>
             LET issues == FlatIssues(reportResults[i])
                 row == csvRows[i + 1]
                 critical == CountWhere(issues, LAMBDA x : x.impact = "critical")
                 serious == CountWhere(issues, LAMBDA x : \/ x.impact = "serious"
                                                          \/ /\ x.impact \notin NamedImpacts
                                                             /\ x.level = "error")
                 moderate == CountWhere(issues, LAMBDA x : \/ x.impact = "moderate"
                                                           \/ /\ x.impact \notin NamedImpacts
                                                              /\ x.level # "error")
             IN  /\ row[2] = ToString(critical)
                 /\ row[3] = ToString(serious)
                 /\ row[4] = ToString(moderate)
                 /\ critical + serious + moderate = Len(issues)
                 /\ \E score \in 0..100 :
                       /\ row[5] = ToString(score)
                       /\ score = IF Len(issues) < 100 THEN 100 - Len(issues) ELSE 0

\* a page with issues of every impact next to a page with 102 issues, whose
\* score is 0
C38_Witness ==
    /\ rpc = "done"
    /\ Len(reportResults) = 2
    /\ Len(FlatIssues(reportResults[1])) = 11
    /\ csvRows[2] = <<escapeCsvField(PageA), "2", "5", "4", "89">>
    /\ Len(FlatIssues(reportResults[2])) = FloodNodes + 1
    /\ csvRows[3][5] = "0"

\* the issues of the three lanes of a result, in the order of the lanes
LaneIssues(result) ==
    result.issues.errors \o result.issues.warnings \o result.issues.hints

\* C37: in the JSON report the flattened list of a page has as many entries
\* as the three lanes of the page together, and every entry carries the level
\* (error, warning or hint) of the issue it was derived from.
C37_LevelKept ==
    rpc = "reported" =>
       \A i \in 1..Len(reportResults) :
          ~HasError(reportResults[i]) =>
             LET flattened == jsonReport.results[i].issues
                 source == LaneIssues(reportResults[i])
             IN  /\ Len(flattened) = Len(source)
                 /\ \A n \in 1..Len(source) :
                       /\ flattened[n].level \in {"error", "warning", "hint"}
                       /\ flattened[n].level = source[n].level

\* C31: generateSummary and generateDetailedReport, JSON and CSV, leave the
\* list they are given as it was: no result and no issue of it is changed,
\* added or removed; and generateSummary called again on the same list gives
\* the same counters, categories and topIssues.
C31_InputUnchanged ==
    [][/\ reportResults' = reportResults
       /\ rpc' = "resummarized" => summary' = summary]_vars

\* a list of two pages with issues was summarized, reported as JSON and
\* summarized again
C31_Witness ==
    /\ rpc = "resummarized"
    /\ jsonReport # <<>>
    /\ Len(reportResults) = 2
    /\ \A i \in 1..2 : ~HasError(reportResults[i])
    /\ Len(jsonReport.results[1].issues) > 0
    /\ Len(jsonReport.results[2].issues) > 0
    /\ Len(summary.topIssues) > 0
    /\ summary.totalIssues = Len(LaneIssues(reportResults[1])) + Len(LaneIssues(reportResults[2]))

\* the sum of the numbers of a list
RECURSIVE SumSeq(_)
SumSeq(list) == IF list = <<>> THEN 0 ELSE Head(list) + SumSeq(Tail(list))

\* C35: for a summary over results of auditPages the counts of the categories
\* add up to summary.totalIssues, and so do the counts of all (id, level)
\* groups before the cut at 10: every issue counted in the totals is counted
\* in exactly one category and one group.
C35_CountsAddUp ==
    Summarized =>
       LET groups == Grouped(AllCollected(reportResults))
           counts == [c \in DOMAIN summary.categories |-> summary.categories[c].count]
       IN  /\ SumOver(counts, DOMAIN counts) = summary.totalIssues
           /\ SumSeq([g \in 1..Len(groups) |-> groups[g].count]) = summary.totalIssues

\* C34: every result of auditPages has a summary that agrees with its
\* issues: errors, warnings and hints are the lengths of the three lanes,
\* totalIssues is their sum, and pagesWithIssues is 1 if totalIssues > 0 and
\* 0 otherwise.
C34_SummaryConsistent ==
    \A i \in 1..Len(results) :
       LET r == results[i]
       IN  /\ r.summary.errors = Len(r.issues.errors)
           /\ r.summary.warnings = Len(r.issues.warnings)
           /\ r.summary.hints = Len(r.issues.hints)
           /\ r.summary.totalIssues
                 = r.summary.errors + r.summary.warnings + r.summary.hints
           /\ r.summary.pagesWithIssues = IF r.summary.totalIssues > 0 THEN 1 ELSE 0

\* a run ended with a page of three issues, a page without issues and a page
\* whose audit failed
C34_Witness ==
    /\ apc = "done"
    /\ Len(results) = 3
    /\ \E i, j, k \in 1..3 :
          /\ results[i].summary.totalIssues = 3 /\ Len(results[i].issues.errors) = 2
          /\ Len(results[i].issues.warnings) = 1
          /\ results[i].summary.pagesWithIssues = 1
          /\ ~HasError(results[j]) /\ results[j].summary.totalIssues = 0
          /\ results[j].summary.pagesWithIssues = 0
          /\ HasError(results[k]) /\ results[k].summary.totalIssues = 0

(***************************************************************************)
(* The crawls whose redirects may end on another host                      *)
(***************************************************************************)
NextRedirect ==
    \/ \E ok \in BOOLEAN, locs \in HtmlChoices : SitemapRequest(ok, locs)
    \/ LoopExit
    \/ Dequeue
    \/ FetchReturnsTo(HtmlChoices, RedirectTargets)
    \/ Delay

SpecRedirect == InitCrawl /\ [][NextRedirect]_vars

\* the hostname of the normalised seed, line 40
SeedDomain == baseUrl.host

\* C36: every page of the result of a crawl has a URL whose host is the host
\* of the seed or one of the two partner domains, also a page whose url is
\* the corrected target of a redirect.
C36_PagesOnAllowedHosts ==
    \A i \in 1..Len(pages) : pages[i].url.host \in AllowedDomains(SeedDomain)

(***************************************************************************)
(* The browser client (src/src/app.ts): the selection it sends to          *)
(* POST /api/audit                                                         *)
(***************************************************************************)
\* lines 213-222: the URLs of the checked pages followed by the custom URLs
getSelectedPages(checked, custom) == checked \o custom

\* lines 286-307: nothing is sent for an empty selection; otherwise the
\* selected URLs that are no custom URLs go to pages
startAudit(checked, custom) ==
    LET selectedPages == getSelectedPages(checked, custom)
    IN  IF Len(selectedPages) = 0 THEN NoBody
        ELSE [route |-> "audit",
              pages |-> SelectSeq(selectedPages, LAMBDA url : ~Includes(custom, url)),
              customUrls |-> custom]

\* the bodies the client sends for the selections it accepts
ClientBodies ==
    {startAudit(checked, custom) :
        checked \in {<<>>, <<PageA>>, <<PageA, PageB>>}, custom \in {<<>>, <<PageB>>}}
    \ {NoBody}

\* C40: an audit request is rejected as an empty selection if and only if the
\* selected pages and the custom URLs together hold no URL; a selection that
\* the client accepts is never rejected by the server as empty.
C40_RejectedIffNoUrl ==
    [][(hpc = "ready" /\ body'.route = "audit") =>
          LET rejected == hpc' = "ready" /\ reply'.status = 400
          IN  /\ rejected <=> Len(body'.pages) + Len(body'.customUrls) = 0
              /\ body' \in ClientBodies => ~rejected
      ]_vars

(***************************************************************************)
(* The server with audit requests whose handlers interleave: every await   *)
(* of a handler lets the other handlers, and the clock, go on.  The one    *)
(* AuditService instance (line 42) keeps nothing between its calls, so a   *)
(* handler has its own urls, index and results.                            *)
(***************************************************************************)
MaxClock == 2           \* the values of Date.now() are 0..MaxClock

\* line 242: `audit_${Date.now()}`
AuditId(t) == <<"audit_", t>>

\* the ids asked for: every id that may have been given, and an id that is
\* never given
LookupIds == {AuditId(t) : t \in 0..MaxClock} \cup {<<"audit_x", 0>>}

\* the ids of the audits compared: the first and the last that may have been
\* given, and the one that is never given
CompareIds == {AuditId(0), AuditId(MaxClock), <<"audit_x", 0>>}

\* the bodies of the audit requests that interleave
HistoryBodies ==
    {[route |-> "audit", pages |-> p, customUrls |-> c] :
        p \in {<<>>, <<PageA>>}, c \in {<<>>, <<PageB>>}}

\* lines 286 and 304-305, Array.prototype.find with a => a.id === id: the
\* first entry with the id, <<>> for undefined
find(history, id) ==
    LET at == {i \in 1..Len(history) : history[i].id = id}
    IN  IF at = {} THEN <<>>
        ELSE <<history[CHOOSE i \in at : \A j \in at : i <= j]>>

\* the URLs of the selected pages alone
SelectedUrls(b) == b.pages

\* line 235: [...pages, ...customUrls]
AllUrls(b) == b.pages \o b.customUrls

\* reportService.ts 303-332; timestamps and pageComparisons are left out
compareAudits(audit1, audit2) ==
    [audit1 |-> [id |-> audit1.id, summary |-> audit1.summary],
     audit2 |-> [id |-> audit2.id, summary |-> audit2.summary],
     changes |-> [f \in {"totalIssues", "errors", "warnings", "hints", "pagesWithIssues"} |->
                     audit2.summary[f] - audit1.summary[f]],
     improvement |-> [f \in {"totalIssues", "errors", "warnings", "hints"} |->
                         audit2.summary[f] < audit1.summary[f]]]

NotFound(message) == [status |-> 404, error |-> message]

\* what no step of the interleaved server touches
HistoryFrame ==
    UNCHANGED <<hpc, served, crawlVars, auditVars, classifyVars, reportVars, normalizeVars>>

\* POST /api/audit arrives, lines 227-236, up to the first request of
\* auditPages; the requests are numbered in the order of their arrival
Arrive(h, b) ==
    /\ handlers[h].pc = "free"
    /\ \A g \in HandlerIds : g < h => handlers[g].pc # "free"
    /\ handlers' = [handlers EXCEPT ![h] =
                      IF Len(b.pages) = 0
                        THEN [@ EXCEPT !.pc = "done", !.body = b, !.status = 400]
                        ELSE [@ EXCEPT !.pc = "request", !.body = b, !.urls = AllUrls(b)]]
    /\ UNCHANGED <<body, reply, auditHistory, now>>
    /\ HistoryFrame

\* auditService.ts lines 127-132 and 191: the request for urls[idx] is posted
SubmitFor(h) ==
    /\ handlers[h].pc = "request"
    /\ handlers' = [handlers EXCEPT ![h].pc = "response"]
    /\ UNCHANGED <<body, reply, auditHistory, now>>
    /\ HistoryFrame

\* auditService.ts lines 132-163 and, after the last URL, part_000 lines
\* 236-258: the request settled; either the delay starts, or auditPages
\* returns and the handler makes the summary, stores the audit and answers,
\* all without an await
RespondTo(h, response) ==
    /\ handlers[h].pc = "response"
    /\ LET my == handlers[h]
           url == my.urls[my.idx]
           res == TryAudit(my.results, url, auditSinglePage(url, response))
           auditData == [id |-> AuditId(now), summary |-> generateSummary(res),
                         results |-> res, pages |-> my.urls]
       IN  IF DelayBetween(my.idx - 1, Len(my.urls))
             THEN /\ handlers' = [handlers EXCEPT ![h] =
                                    [@ EXCEPT !.pc = "delay", !.results = res,
                                              !.since = now]]
                  /\ UNCHANGED auditHistory
             ELSE /\ auditHistory' = Append(auditHistory, auditData)
                  /\ handlers' = [handlers EXCEPT ![h] =
                                    [@ EXCEPT !.pc = "done", !.results = res,
                                              !.status = 200, !.auditId = auditData.id]]
    /\ UNCHANGED <<body, reply, now>>
    /\ HistoryFrame

\* auditService.ts line 162: the timer of the delay fired, which takes the
\* clock past the value it had when the delay began
DelayOver(h) ==
    /\ handlers[h].pc = "delay"
    /\ now > handlers[h].since
    /\ handlers' = [handlers EXCEPT ![h] =
                      [@ EXCEPT !.pc = "request", !.idx = @ + 1, !.since = 0]]
    /\ UNCHANGED <<body, reply, auditHistory, now>>
    /\ HistoryFrame

\* a millisecond ends
Tick ==
    /\ now < MaxClock
    /\ now' = now + 1
    /\ UNCHANGED <<body, reply, auditHistory, handlers>>
    /\ HistoryFrame

\* GET /api/audit-history, lines 266-279
GetAuditHistory ==
    /\ body' = [route |-> "audit-history"]
    /\ reply' = [status |-> 200,
                 history |-> [i \in 1..Len(auditHistory) |->
                                [id |-> auditHistory[i].id,
                                 summary |-> auditHistory[i].summary,
                                 pageCount |-> Len(auditHistory[i].pages)]]]
    /\ UNCHANGED <<auditHistory, handlers, now>>
    /\ HistoryFrame

\* GET /api/audit/:id, lines 283-297
GetAudit(id) ==
    /\ body' = [route |-> "audit/:id", id |-> id]
    /\ LET audit == find(auditHistory, id)
       IN  reply' = IF audit = <<>> THEN NotFound("Audit not found")
                    ELSE [status |-> 200, audit |-> audit[1]]
    /\ UNCHANGED <<auditHistory, handlers, now>>
    /\ HistoryFrame

\* POST /api/audit-compare, lines 300-318
PostAuditCompare(id1, id2) ==
    /\ body' = [route |-> "audit-compare", auditId1 |-> id1, auditId2 |-> id2]
    /\ LET audit1 == find(auditHistory, id1)
           audit2 == find(auditHistory, id2)
       IN  reply' = IF audit1 = <<>> \/ audit2 = <<>>
                      THEN NotFound("One or both audits not found")
                      ELSE [status |-> 200,
                            comparison |-> compareAudits(audit1[1], audit2[1])]
    /\ UNCHANGED <<auditHistory, handlers, now>>
    /\ HistoryFrame

InitHistory ==
    /\ hpc = "ready" /\ body = NoBody /\ reply = NoReply /\ auditHistory = <<>>
    /\ served = 0 /\ handlers = NoHandlers /\ now = 0
    /\ CrawlIdle /\ AuditIdle /\ ClassifyIdle /\ ReportIdle /\ NormalizeIdle

NextHistory ==
    \/ \E h \in HandlerIds, b \in HistoryBodies : Arrive(h, b)
    \/ \E h \in HandlerIds : SubmitFor(h)
    \/ \E h \in HandlerIds, response \in ServerResponses : RespondTo(h, response)
    \/ \E h \in HandlerIds : DelayOver(h)
    \/ Tick
    \/ GetAuditHistory
    \/ \E id \in LookupIds : GetAudit(id)
    \/ \E id1, id2 \in CompareIds : PostAuditCompare(id1, id2)

SpecHistory == InitHistory /\ [][NextHistory]_vars

\* the handler of request h answers with its audit in this step
Completes(h) == handlers[h].pc = "response" /\ handlers'[h].pc = "done"

\* a step of one of the three routes that read the history
LookupStep == handlers' = handlers /\ now' = now

StoredIds == {auditHistory[i].id : i \in 1..Len(auditHistory)}

\* C32: the audit history is append-only.  Every audit request that completes
\* appends exactly one entry, which holds the results of the request, their
\* summary and the full URL list, the selected pages followed by the custom
\* URLs; no step changes or removes an entry; listing, lookup and comparison
\* leave the history as it is; and a lookup or a comparison with an id that
\* was never stored answers not found.
C32_HistoryAppendOnly ==
    /\ [](Len(auditHistory) = Cardinality({h \in HandlerIds : handlers[h].status = 200}))
    /\ [][/\ \/ auditHistory' = auditHistory
             \/ \E h \in HandlerIds :
                   /\ Completes(h)
                   /\ auditHistory' =
                         Append(auditHistory,
                                [id |-> handlers'[h].auditId,
                                 summary |-> generateSummary(handlers'[h].results),
                                 results |-> handlers'[h].results,
                                 pages |-> handlers[h].body.pages
                                           \o handlers[h].body.customUrls])
          /\ \A h \in HandlerIds :
                Completes(h) => Len(auditHistory') = Len(auditHistory) + 1
          /\ LookupStep =>
                /\ auditHistory' = auditHistory
                /\ (body'.route = "audit/:id" /\ body'.id \notin StoredIds)
                      => reply' = NotFound("Audit not found")
                /\ (body'.route = "audit-compare"
                    /\ (body'.auditId1 \notin StoredIds \/ body'.auditId2 \notin StoredIds))
                      => reply' = NotFound("One or both audits not found")
         ]_vars

\* two requests completed, one of them with a selected page and a custom URL;
\* the history holds their two audits, and a comparison with an id that was
\* never stored was answered not found
C32_Witness ==
    /\ \A h \in HandlerIds : handlers[h].status = 200
    /\ Len(auditHistory) = 2
    /\ auditHistory[1].pages = <<PageA, PageB>>
    /\ Len(auditHistory[1].results) = 2
    /\ auditHistory[2].pages = <<PageA>>
    /\ body.route = "audit-compare"
    /\ body.auditId1 \in StoredIds /\ body.auditId2 \notin StoredIds
    /\ reply.status = 404

\* the requests whose submission to the accessibility API is in flight
InFlight == {h \in HandlerIds : handlers[h].pc = "response"}

\* C33: at no time are two submissions to the accessibility API in flight
\* together, also when the one AuditService serves several audit requests
\* whose handlers interleave at their awaits (submissions that the 1-second
\* delay separates are never in flight together).
C33_OneSubmissionInFlight == Cardinality(InFlight) <= 1

\* C39: any two entries of the audit history have distinct ids, so the lookup
\* by the auditId answered to a caller yields the audit that the request of
\* this caller stored, also when requests complete close together in time.
C39_LookupYieldsOwnAudit ==
    /\ \A i, j \in 1..Len(auditHistory) :
          i # j => auditHistory[i].id # auditHistory[j].id
    /\ \A h \in HandlerIds :
          handlers[h].status = 200 =>
             LET audit == find(auditHistory, handlers[h].auditId)
             IN  /\ audit # <<>>
                 /\ audit[1].results = handlers[h].results
                 /\ audit[1].pages = handlers[h].urls

====
